---- MODULE Spec2Model ----
(***************************************************************************)
(* qModManager: the reconciliation core (qmm/bucket.py, qmm/fileutils.py,  *)
(* qmm/filehandler.py) and the handlers of qmm/manager.py that drive it.   *)
(*                                                                         *)
(* A path is the tuple of its segments, as pathlib's `parts` gives them:   *)
(* "ns/items/clothing/sock/sock.xml" is                                    *)
(* <<"ns","items","clothing","sock","sock.xml">>.  FileMetadata._Path is   *)
(* pathlib's as_posix(), which carries no trailing separator, so the path  *)
(* of a directory record is the tuple of the directory's segments.         *)
(***************************************************************************)
EXTENDS Integers, Sequences, FiniteSets, TLC

VARIABLES
    loosefiles,        \* bucket.loosefiles: crc -> list of FileMetadata
    conflicts,         \* bucket.conflicts: path -> list of archive names
    disk,              \* regular files under <game>/res/mods: path -> crc32, NoFile when absent
    dirs,              \* directories under <game>/res/mods (those the model tracks)
    managed_archives,  \* ArchivesCollection._data, in dict (insertion) order
    user_archives,     \* the archive files the user has at hand to open
    gamefiles,         \* bucket.gamefiles: crc -> FileMetadata of a base-game file
    window,            \* MainWindow: the auto-refresh checkbox, _wd_watchers, _is_mod_repo_dirty
    batch,             \* the install batch in progress, and where its loop stands
    repository,        \* the entries of the local_repository directory
    last               \* the last operation run and its outcome

vars == <<loosefiles, conflicts, disk, dirs, managed_archives, user_archives, gamefiles,
          window, batch, repository, last>>

----------------------------------------------------------------------------
(* The universe of paths and hashes the inputs are drawn from.             *)

NoFile == 0

Hashes == {1, 2}

P1 == <<"ns", "items", "clothing", "sock", "sock.xml">>
P2 == <<"ns", "items", "clothing", "sock", "hat.xml">>
\* leaf name on the junk deny-list
PJunk == <<"ns", "items", "clothing", "sock", "Thumbs.db">>
\* category that is no first level directory
PBadCat == <<"ns", "badcat", "x.xml">>
\* sub-directory of items/ that is not permitted
PBadSub == <<"ns", "items", "badsub", "x.xml">>
\* extension that is not permitted
PBadExt == <<"ns", "items", "clothing", "sock", "readme.txt">>
DCat == <<"ns", "items", "clothing">>
DSock == <<"ns", "items", "clothing", "sock">>

FilePaths == {P1, P2, PJunk, PBadCat, PBadSub, PBadExt}
DirPaths == {DCat, DSock}
Paths == FilePaths \cup DirPaths

\* pathlib.PurePath.name
Name(path) == path[Len(path)]

\* pathlib.PurePath.suffix of the names of the universe
Suffix(name) ==
    IF name \in {"sock.xml", "hat.xml", "x.xml"} THEN ".xml"
    ELSE IF name = "readme.txt" THEN ".txt"
    ELSE IF name = "Thumbs.db" THEN ".db"
    ELSE ""

\* path `inner` lies inside directory `outer`
Inside(inner, outer) ==
    /\ Len(inner) > Len(outer)
    /\ SubSeq(inner, 1, Len(outer)) = outer

----------------------------------------------------------------------------
(* bucket.py                                                               *)

FileMetadata(crc, path, attributes) ==
    [crc |-> crc, path |-> path, attributes |-> attributes]

\* pathobj.exists()
exists(dk, ds, path) == (path \in DOMAIN dk /\ dk[path] # NoFile) \/ path \in ds

is_dir(dk, ds, file) ==
    IF ~exists(dk, ds, file.path) THEN file.attributes = "D"
    ELSE file.path \in ds

file_crc_in_loosefiles(lf, filemd) == filemd.crc \in DOMAIN lf

file_path_in_loosefiles(lf, filemd) ==
    \E crc \in DOMAIN lf : \E i \in 1..Len(lf[crc]) : lf[crc][i].path = filemd.path

\* The 0-based index list.index() gives for the first item of the bucket at
\* `path`; `return False` when there is none, and False is the integer 0
\* wherever Python takes it as a list index.
_find_index_from(lbucket, crc, path) ==
    IF \E i \in 1..Len(lbucket[crc]) : lbucket[crc][i].path = path
    THEN (CHOOSE i \in 1..Len(lbucket[crc]) :
              /\ lbucket[crc][i].path = path
              /\ \A j \in 1..(i - 1) : lbucket[crc][j].path # path) - 1
    ELSE 0

\* list.pop(idx), idx 0-based
pop(list, idx) ==
    SubSeq(list, 1, idx) \o SubSeq(list, idx + 2, Len(list))

\* as_loosefile without its append on a new key: setdefault(crc, []) alone
as_loosefile_setdefault_only(lf, dk, ds, crc, filepath) ==
    IF crc \in DOMAIN lf
    THEN [lf EXCEPT ![crc] = Append(@, FileMetadata(crc, filepath,
                                       IF filepath \in ds THEN "D" ELSE "F"))]
    ELSE lf @@ (crc :> <<>>)

as_loosefile(lf, dk, ds, crc, filepath) ==
    LET fmd == FileMetadata(crc, filepath, IF filepath \in ds THEN "D" ELSE "F")
    IN  IF crc \in DOMAIN lf
        THEN [lf EXCEPT ![crc] = Append(@, fmd)]
        ELSE lf @@ (crc :> <<fmd>>)

\* remove_item_from_loosefiles without `loosefiles.pop(file.crc)`
remove_item_keeping_bucket(lf, file) ==
    IF file.crc \in DOMAIN lf /\ file_path_in_loosefiles(lf, file)
    THEN [lf EXCEPT ![file.crc] = pop(@, _find_index_from(lf, file.crc, file.path))]
    ELSE lf

remove_item_from_loosefiles(lf, file) ==
    IF file.crc \in DOMAIN lf /\ file_path_in_loosefiles(lf, file)
    THEN LET idx == _find_index_from(lf, file.crc, file.path)
             rest == pop(lf[file.crc], idx)
         IN  IF rest = <<>>
             THEN [c \in DOMAIN lf \ {file.crc} |-> lf[c]]
             ELSE [lf EXCEPT ![file.crc] = rest]
    ELSE lf

----------------------------------------------------------------------------
(* fileutils.py: the classifier                                            *)

MATCHED == "MATCHED"
MISSING == "MISSING"
MISMATCHED == "MISMATCHED"
IGNORED == "IGNORED"

ignore_patterns == {".DS_Store", "__MACOSX", "Thumbs.db"}

first_level_dir ==
    {"items", "outfits", "setBonuses", "statusEffects", "race", "colours", "combatMove"}

subfolders_of_items == {"weapons", "clothing", "tattoos", "items", "patterns"}

\* the check without its clause on the sub-directories of items/
_bad_directory_structure_first_level(path) ==
    Len(path) >= 2 /\ path[2] \notin first_level_dir

\* `path.parts` are the segments of the posix path handed in (parts[1] is the
\* second segment).
_bad_directory_structure(path) ==
    \/ Len(path) >= 2 /\ path[2] \notin first_level_dir
    \/ Len(path) >= 3 /\ path[2] = "items" /\ path[3] \notin subfolders_of_items

_bad_suffix(suffix) == suffix \notin {".xml", ".svg"}

\* file_status with the Matched test moved before the Ignored test
file_status_matched_first(lf, dk, ds, file) ==
    IF \/ is_dir(dk, ds, file) /\ file_path_in_loosefiles(lf, file)
       \/ file_crc_in_loosefiles(lf, file) /\ file_path_in_loosefiles(lf, file)
    THEN MATCHED
    ELSE IF \/ Name(file.path) \in ignore_patterns
            \/ _bad_directory_structure(file.path)
            \/ (Suffix(Name(file.path)) # "" /\ _bad_suffix(Suffix(Name(file.path))))
    THEN IGNORED
    ELSE IF file_path_in_loosefiles(lf, file) /\ ~file_crc_in_loosefiles(lf, file)
    THEN MISMATCHED
    ELSE MISSING

file_status(lf, dk, ds, file) ==
    IF \/ Name(file.path) \in ignore_patterns
       \/ _bad_directory_structure(file.path)
       \/ (Suffix(Name(file.path)) # "" /\ _bad_suffix(Suffix(Name(file.path))))
    THEN IGNORED
    ELSE IF \/ is_dir(dk, ds, file) /\ file_path_in_loosefiles(lf, file)
            \/ file_crc_in_loosefiles(lf, file) /\ file_path_in_loosefiles(lf, file)
    THEN MATCHED
    ELSE IF file_path_in_loosefiles(lf, file) /\ ~file_crc_in_loosefiles(lf, file)
    THEN MISMATCHED
    ELSE MISSING

----------------------------------------------------------------------------
(* filehandler.py: its own copy of the classifier, the one ArchiveInstance *)
(* of filehandler.py calls                                                 *)

filehandler_first_level_dir == {"items", "outfits"}

filehandler_bad_directory_structure(path) ==
    Len(path) > 1 /\ ~(\E x \in filehandler_first_level_dir : path[2] = x)

filehandler_file_status(lf, file) ==
    IF \/ Name(file.path) \in ignore_patterns
       \/ filehandler_bad_directory_structure(file.path)
       \/ (Suffix(Name(file.path)) # "" /\ _bad_suffix(Suffix(Name(file.path))))
    THEN IGNORED
    ELSE IF file_crc_in_loosefiles(lf, file) /\ file_path_in_loosefiles(lf, file)
    THEN MATCHED
    ELSE IF file_path_in_loosefiles(lf, file) /\ ~file_crc_in_loosefiles(lf, file)
    THEN MISMATCHED
    ELSE MISSING

----------------------------------------------------------------------------
(* filehandler.py: ArchiveInstance.  An instance is the record             *)
(* [archive_name, file_list, meta, conflicts]: meta[i] is the status of    *)
(* file_list[i] (self._meta), conflicts is self._conflicts.                *)

EmptyMap == [x \in {} |-> <<>>]

\* the concatenation of the sequences of a sequence
RECURSIVE Flatten(_)
Flatten(ss) == IF ss = <<>> THEN <<>> ELSE Head(ss) \o Flatten(Tail(ss))

\* the elements of a set of integers, ascending
RECURSIVE Ascending(_)
Ascending(S) ==
    IF S = {} THEN <<>>
    ELSE LET m == CHOOSE m \in S : \A x \in S : m <= x
         IN  <<m>> \o Ascending(S \ {m})

\* every entry of loosefiles, bucket after bucket (`for mfile in
\* bucket.loosefiles.values()`); the buckets are taken by ascending crc
LooseEntries(lf) ==
    LET keys == Ascending(DOMAIN lf)
    IN  Flatten([i \in 1..Len(keys) |-> lf[keys[i]]])

\* the number of entries of the index
Entries(lf) == Len(LooseEntries(lf))

reset_status(lf, ai) ==
    [ai EXCEPT !.meta =
        [i \in 1..Len(ai.file_list) |-> filehandler_file_status(lf, ai.file_list[i])]]

with_conflict(cf, path) == path \in DOMAIN cf

\* the default None of the arguments of with_gamefiles
NoCrc == -1
NoPath == <<>>

with_gamefiles(gf, crc, path) ==
    \/ crc \in DOMAIN gf
    \/ \E c \in DOMAIN gf : gf[c].path = path

\* map[key] = value
Put(map, key, value) ==
    [k \in DOMAIN map \cup {key} |-> IF k = key THEN value ELSE map[k]]

\* The loop of reset_conflicts from the record number i on.  The list stored
\* at self._conflicts[path] is conflicts[path] \o game[path]: the archive names
\* taken from bucket.conflicts, then the base-game file.  bucket.gamefiles[crc]
\* raises KeyError when crc is no key of gamefiles; the exception leaves the
\* loop with the entries written so far.
RECURSIVE reset_conflicts_loop(_, _, _, _)
reset_conflicts_loop(cf, gf, ai, i) ==
    IF i > Len(ai.file_list) THEN [ai |-> ai, raised |-> FALSE]
    ELSE LET item == ai.file_list[i]
             names == IF with_conflict(cf, item.path) THEN cf[item.path] ELSE <<>>
             hit == \/ with_gamefiles(gf, NoCrc, item.path)
                    \/ with_gamefiles(gf, item.crc, NoPath)
         IN  IF hit /\ item.crc \notin DOMAIN gf
             THEN [ai |-> ai, raised |-> TRUE]
             ELSE LET game == IF hit THEN <<gf[item.crc]>> ELSE <<>>
                  IN  reset_conflicts_loop(cf, gf,
                          IF names \o game # <<>>
                          THEN [ai EXCEPT !.conflicts = Put(@, item.path, names),
                                          !.game = Put(@, item.path, game)]
                          ELSE ai,
                          i + 1)

reset_conflicts(cf, gf, ai) == reset_conflicts_loop(cf, gf, ai, 1)

ArchiveInstance(lf, archive_name, file_list) ==
    reset_status(lf, [archive_name |-> archive_name, file_list |-> file_list,
                      meta |-> <<>>, conflicts |-> EmptyMap, game |-> EmptyMap])

_has_status(ai, status) == \E i \in 1..Len(ai.meta) : ai.meta[i] = status

has_matched(ai) == _has_status(ai, MATCHED)

has_mismatched(ai) == _has_status(ai, MISMATCHED)

all_matching(ai) ==
    \A i \in 1..Len(ai.meta) :
        ai.file_list[i].attributes # "D" => ai.meta[i] \in {MATCHED, IGNORED}

\* ABCArchiveInstance.empty
empty(ai) == ai.file_list = <<>>

\* the records of the archive with one of the statuses, in archive order
WithStatus(ai, statuses) ==
    LET idx == Ascending({i \in 1..Len(ai.meta) : ai.meta[i] \in statuses})
    IN  [k \in 1..Len(idx) |-> ai.file_list[idx[k]]]

matched(ai) == WithStatus(ai, {MATCHED})

ignored(ai) == WithStatus(ai, {IGNORED})

\* mismatched yielding the Mismatched records of the archive themselves
mismatched_archive_records(lf, ai) == WithStatus(ai, {MISMATCHED})

\* the loose entries stored at the path of each Mismatched record
mismatched(lf, ai) ==
    IF ~has_mismatched(ai) THEN <<>>
    ELSE LET items == WithStatus(ai, {MISMATCHED})
         IN  Flatten([k \in 1..Len(items) |->
                 SelectSeq(LooseEntries(lf), LAMBDA f : f.path = items[k].path)])

install_info(lf, ai) ==
    [matched |-> matched(ai), mismatched |-> mismatched(lf, ai), ignored |-> ignored(ai)]

\* len(self._Path) of the paths of the universe
PathLen(path) ==
    CASE path = DCat -> 17
      [] path = DSock -> 22
      [] path = P1 -> 31
      [] path = P2 -> 30
      [] path = PJunk -> 32
      [] path = PBadCat -> 15
      [] path = PBadSub -> 21
      [] path = PBadExt -> 33

\* sorted(self._file_list, reverse=True) under FileMetadata.__lt__, where
\* a < b iff len(b) < len(a): the greatest element, taken first, is the
\* shortest path; equal lengths keep the order of the archive
RECURSIVE SortedReverse(_)
SortedReverse(list) ==
    IF list = <<>> THEN <<>>
    ELSE LET i == CHOOSE i \in 1..Len(list) :
                      /\ \A j \in 1..Len(list) : PathLen(list[i].path) <= PathLen(list[j].path)
                      /\ \A j \in 1..(i - 1) : PathLen(list[j].path) # PathLen(list[i].path)
         IN  <<list[i]>> \o SortedReverse(SubSeq(list, 1, i - 1) \o SubSeq(list, i + 1, Len(list)))

folders(dk, ds, ai) ==
    SelectSeq(SortedReverse(ai.file_list), LAMBDA x : is_dir(dk, ds, x))

uninstall_info(dk, ds, ai) == matched(ai) \o folders(dk, ds, ai)

\* The archives that conflict with this one: the other archives named in its
\* conflict lists.
known_conflictors(ai) ==
    (UNION {{ai.conflicts[path][i] : i \in 1..Len(ai.conflicts[path])} :
                path \in DOMAIN ai.conflicts}) \ {ai.archive_name}

----------------------------------------------------------------------------
(* filehandler.py: conflict detection across the registry.  `archives` is  *)
(* the registry as the sequence of its instances in dict order.            *)

as_conflict(cf, key, value) ==
    IF key \in DOMAIN cf THEN [cf EXCEPT ![key] = @ \o value]
    ELSE cf @@ (key :> value)

\* the name of archive ai, once per record of ai at file's path with another crc
FoundIn(dk, ds, file, ai) ==
    LET hits == SelectSeq(ai.file_list,
                    LAMBDA o : ~is_dir(dk, ds, file) /\ file.path = o.path /\ file.crc # o.crc)
    IN  [i \in 1..Len(hits) |-> ai.archive_name]

\* _filter_list_on_exclude + file_in_other_archives; `ignore` is a set of names
file_in_other_archives(dk, ds, file, archives, ignore) ==
    Flatten([a \in 1..Len(archives) |->
        IF archives[a].archive_name \in ignore THEN <<>>
        ELSE FoundIn(dk, ds, file, archives[a])])

RECURSIVE conflicts_process_files(_, _, _, _, _, _, _)
conflicts_process_files(cf, dk, ds, files, archives_list, current_archive, processed) ==
    IF files = <<>> THEN cf
    ELSE LET file == Head(files)
             bad_archives == file_in_other_archives(dk, ds, file, archives_list, processed)
             cf2 == IF with_conflict(cf, file.path) THEN cf
                    ELSE IF bad_archives # <<>>
                    THEN as_conflict(cf, file.path, Append(bad_archives, current_archive))
                    ELSE cf
         IN  conflicts_process_files(cf2, dk, ds, Tail(files), archives_list,
                                     current_archive, processed)

RECURSIVE generate_loop(_, _, _, _, _, _)
generate_loop(cf, dk, ds, archives_lists, a, list_done) ==
    IF a > Len(archives_lists) THEN cf
    ELSE generate_loop(
             conflicts_process_files(cf, dk, ds, archives_lists[a].file_list,
                 archives_lists, archives_lists[a].archive_name, list_done),
             dk, ds, archives_lists, a + 1,
             list_done \cup {archives_lists[a].archive_name})

generate_conflicts_between_archives(cf, dk, ds, archives_lists) ==
    generate_loop(cf, dk, ds, archives_lists, 1, {})

----------------------------------------------------------------------------
(* filehandler.py: install_archive and uninstall_files                     *)

\* What 7z extracts: the records of the archive whose path is not on the
\* exclude list built from the ignored and the matched records.
extract7z(ai, file_context) ==
    LET excluded == {file_context.ignored[i].path : i \in 1..Len(file_context.ignored)}
                        \cup {file_context.matched[i].path : i \in 1..Len(file_context.matched)}
    IN  SelectSeq(ai.file_list, LAMBDA f : f.path \notin excluded)

\* os.makedirs(os.path.dirname(dst), exist_ok=True)
makedirs(ds, path) == ds \cup {d \in DirPaths : Inside(path, d)}

\* The copy loop of install_archive from the i-th extracted entry on;
\* shutil.copy2 raises OSError on entry number `fail` (0: on none).
RECURSIVE copy_loop(_, _, _, _, _, _)
copy_loop(files, i, fail, lf, dk, ds) ==
    IF i > Len(files) THEN [lf |-> lf, dk |-> dk, ds |-> ds, raised |-> FALSE]
    ELSE IF files[i].attributes = "D"
    THEN copy_loop(files, i + 1, fail, lf, dk, ds)
    ELSE LET myfile == files[i]
             ds2 == makedirs(ds, myfile.path)
             dk2 == [dk EXCEPT ![myfile.path] = myfile.crc]
         IN  IF i = fail
             THEN [lf |-> lf, dk |-> dk, ds |-> ds2, raised |-> TRUE]
             ELSE copy_loop(files, i + 1, fail,
                            as_loosefile(lf, dk2, ds2, myfile.crc, myfile.path), dk2, ds2)

RECURSIVE remove_all(_, _)
remove_all(lf, files) ==
    IF files = <<>> THEN lf
    ELSE remove_all(remove_item_from_loosefiles(lf, Head(files)), Tail(files))

\* tool: what the external tool does, "ok", "error" (ArchiveException),
\* "empty" (an empty list of extracted files) or "nostart" (Popen raises
\* OSError and extract7z returns False, which `for myfile in files` cannot
\* iterate: TypeError, caught by neither except clause).  `files` is the truth
\* value of the result handed back to the caller, `raised` tells that an
\* exception left the call instead.
install_archive(lf, dk, ds, ai, file_context, tool, fail) ==
    IF tool = "error"
    THEN [lf |-> lf, dk |-> dk, ds |-> ds, files |-> FALSE, raised |-> FALSE]
    ELSE IF tool = "nostart"
    THEN [lf |-> lf, dk |-> dk, ds |-> ds, files |-> FALSE, raised |-> TRUE]
    ELSE LET files == IF tool = "empty" THEN <<>> ELSE extract7z(ai, file_context)
             r == copy_loop(files, 1, fail, lf, dk, ds)
         IN  IF r.raised
             THEN [lf |-> r.lf, dk |-> r.dk, ds |-> r.ds, files |-> FALSE,
                   raised |-> FALSE]
             ELSE [lf |-> remove_all(r.lf, file_context.mismatched),
                   dk |-> r.dk, ds |-> r.ds, files |-> files # <<>>,
                   raised |-> FALSE]

\* the directory holds neither a file nor a directory
EmptyDir(dk, ds, d) ==
    /\ \A path \in DOMAIN dk : dk[path] # NoFile => ~Inside(path, d)
    /\ \A e \in ds : ~Inside(e, d)

\* pathlib orders paths by their parts; the rank of each directory of the
\* universe in that order
DirRank(path) == IF path = DCat THEN 1 ELSE 2

\* dlist.sort(reverse=True)
RECURSIVE SortReverse(_)
SortReverse(dlist) ==
    IF dlist = <<>> THEN <<>>
    ELSE LET i == CHOOSE i \in 1..Len(dlist) :
                      \A j \in 1..Len(dlist) : DirRank(dlist[j]) <= DirRank(dlist[i])
         IN  <<dlist[i]>> \o SortReverse(SubSeq(dlist, 1, i - 1) \o SubSeq(dlist, i + 1, Len(dlist)))

\* The second loop of uninstall_files; `log` lists the calls made on the file
\* system, in the order they are made.
RECURSIVE rmdir_loop(_, _, _, _)
rmdir_loop(dk, ds, dlist, log) ==
    IF dlist = <<>> THEN [ds |-> ds, log |-> log]
    ELSE LET directory == Head(dlist)
         IN  rmdir_loop(dk,
                 IF directory \in ds /\ EmptyDir(dk, ds, directory)
                 THEN ds \ {directory} ELSE ds,
                 Tail(dlist),
                 Append(log, [call |-> "rmdir", path |-> directory]))

\* The first loop of uninstall_files; unlink() raises OSError for a file that
\* is not on the disk and for the files of `denied`.
RECURSIVE unlink_loop(_, _, _, _, _, _, _, _)
unlink_loop(file_list, denied, lf, dk, ds, dlist, success, log) ==
    IF file_list = <<>>
    THEN [lf |-> lf, dk |-> dk, dlist |-> dlist, success |-> success, log |-> log]
    ELSE LET item == Head(file_list)
             unlink == Append(log, [call |-> "unlink", path |-> item.path])
         IN  IF item.path \in ds
             THEN unlink_loop(Tail(file_list), denied, lf, dk, ds,
                              Append(dlist, item.path), success, log)
             ELSE IF item.path \in DOMAIN dk /\ dk[item.path] # NoFile
                     /\ item.path \notin denied
             THEN unlink_loop(Tail(file_list), denied,
                              remove_item_from_loosefiles(lf, item),
                              [dk EXCEPT ![item.path] = NoFile], ds, dlist, success,
                              unlink)
             ELSE unlink_loop(Tail(file_list), denied, lf, dk, ds, dlist, FALSE, unlink)

uninstall_files(lf, dk, ds, file_list, denied) ==
    LET r == unlink_loop(file_list, denied, lf, dk, ds, <<>>, TRUE, <<>>)
        d == rmdir_loop(r.dk, ds, SortReverse(r.dlist), r.log)
    IN  [lf |-> r.lf, dk |-> r.dk, ds |-> d.ds, success |-> r.success, log |-> d.log]

\* os.walk of the mod folder: the files of the disk in the order of the walk
WalkOrder == <<PBadCat, PBadSub, P2, PJunk, PBadExt, P1>>

RECURSIVE walk_loop(_, _, _, _)
walk_loop(lf, dk, ds, i) ==
    IF i > Len(WalkOrder) THEN lf
    ELSE walk_loop(IF dk[WalkOrder[i]] # NoFile
                   THEN as_loosefile(lf, dk, ds, dk[WalkOrder[i]], WalkOrder[i])
                   ELSE lf,
                   dk, ds, i + 1)

\* build_loose_files_crc32 on an empty index
build_loose_files_crc32(dk, ds) == walk_loop(EmptyMap, dk, ds, 1)

----------------------------------------------------------------------------
(* The ContentIndex on its own: index_loose and remove_loose called in any *)
(* order on any (hash, path) of the universe.                              *)

MaxLoose == 3

IndexPaths == {P1, P2, PJunk, PBadSub}

NoOp == [op |-> "none"]

\* MainWindow after _init_mods: setup_schedulers has scheduled both watchers.
\* previous_state is the field of the application's event filter: FALSE from
\* the moment the application went to the background
InitWindow(autorefresh) ==
    [autorefresh |-> autorefresh, wd_modules |-> TRUE, wd_archives |-> TRUE,
     is_mod_repo_dirty |-> FALSE, previous_state |-> TRUE]

\* no handler is in progress
NoBatch == [pc |-> "idle"]

\* MainWindow._do_enable_autorefresh: schedules both watchers, or
\* unschedules both
_do_enable_autorefresh(w, value) ==
    [w EXCEPT !.wd_modules = value, !.wd_archives = value]

InitIndex ==
    /\ loosefiles = EmptyMap
    /\ conflicts = EmptyMap
    /\ disk = [path \in FilePaths |-> NoFile]
    /\ dirs = {}
    /\ managed_archives = <<>>
    /\ user_archives = {}
    /\ gamefiles = EmptyMap
    /\ window = InitWindow(FALSE)
    /\ batch = NoBatch
    /\ repository = {}
    /\ last = NoOp

IndexLoose(crc, path) ==
    /\ Entries(loosefiles) < MaxLoose
    /\ loosefiles' = as_loosefile(loosefiles, disk, dirs, crc, path)
    /\ last' = [op |-> "index_loose", crc |-> crc, path |-> path,
                fresh |-> crc \notin DOMAIN loosefiles]
    /\ UNCHANGED <<conflicts, disk, dirs, managed_archives, user_archives, gamefiles, window, batch, repository>>

RemoveLoose(crc, path) ==
    /\ loosefiles' = remove_item_from_loosefiles(loosefiles, FileMetadata(crc, path, "F"))
    /\ last' = [op |-> "remove_loose", crc |-> crc, path |-> path,
                follows |-> (last.op = "index_loose" /\ last.crc = crc /\ last.path = path),
                fresh |-> (last.op = "index_loose" /\ last.fresh)]
    /\ UNCHANGED <<conflicts, disk, dirs, managed_archives, user_archives, gamefiles, window, batch, repository>>

NextIndex ==
    \/ \E crc \in Hashes, path \in IndexPaths : IndexLoose(crc, path)
    \/ \E crc \in Hashes, path \in IndexPaths : RemoveLoose(crc, path)

SpecIndex == InitIndex /\ [][NextIndex]_vars

----------------------------------------------------------------------------
(* manager.py: the handlers of MainWindow, each run to its end.            *)

ArchiveNames == {"A.7z", "B.7z", "C.7z"}

\* what list7z reads from each archive of the repository
ArchiveContent(name) ==
    CASE name = "A.7z" -> <<FileMetadata(0, DCat, "D"), FileMetadata(0, DSock, "D"),
                            FileMetadata(1, P1, "F")>>
      [] name = "B.7z" -> <<FileMetadata(2, P1, "F"), FileMetadata(2, PBadExt, "F")>>
      [] name = "C.7z" -> <<FileMetadata(1, P1, "F"), FileMetadata(1, P2, "F")>>
      [] name = "D.7z" -> <<FileMetadata(2, P2, "F")>>

\* the archives selected in one install or uninstall
MaxBatch == 2

\* the entries loosefiles may hold after an install
MaxEntries == 3

Registered == {managed_archives[a].archive_name : a \in 1..Len(managed_archives)}

\* self.managed_archives[name]
Archive(name) ==
    managed_archives[CHOOSE a \in 1..Len(managed_archives) :
                         managed_archives[a].archive_name = name]

\* the selections of the list widget: sequences of distinct registered archives
Selections ==
    {sel \in UNION {[1..n -> Registered] : n \in 1..MaxBatch} :
        \A i, j \in 1..Len(sel) : i # j => sel[i] # sel[j]}

EmptyDisk == [path \in FilePaths |-> NoFile]

\* the mod folder when the program starts: empty, or holding a file no
\* archive of the repository installed
InitDisks == {EmptyDisk, [EmptyDisk EXCEPT ![P2] = 1]}

\* MainWindow._init_mods with an empty repository
Init ==
    /\ disk \in InitDisks
    /\ dirs = {d \in DirPaths : \E path \in FilePaths : disk[path] # NoFile /\ Inside(path, d)}
    /\ loosefiles = build_loose_files_crc32(disk, dirs)
    /\ conflicts = EmptyMap
    /\ managed_archives = <<>>
    /\ user_archives = {"A.7z", "B.7z"}
    /\ gamefiles = EmptyMap
    /\ window = InitWindow(FALSE)
    /\ batch = NoBatch
    /\ repository = {}
    /\ last = [op |-> "none"]

RECURSIVE refresh_list_item_state_loop(_, _, _, _, _)
refresh_list_item_state_loop(lf, cf, gf, archives, idx) ==
    IF idx > Len(archives) THEN [archives |-> archives, raised |-> FALSE]
    ELSE LET r == reset_conflicts(cf, gf, reset_status(lf, archives[idx]))
             refreshed == [archives EXCEPT ![idx] = r.ai]
         IN  IF r.raised THEN [archives |-> refreshed, raised |-> TRUE]
             ELSE refresh_list_item_state_loop(lf, cf, gf, refreshed, idx + 1)

refresh_list_item_state(lf, cf, gf, archives) ==
    refresh_list_item_state_loop(lf, cf, gf, archives, 1)

\* ArchivesCollection.initiate_conflicts_detection from the archive number idx on
RECURSIVE initiate_conflicts_detection_loop(_, _, _, _)
initiate_conflicts_detection_loop(cf, gf, archives, idx) ==
    IF idx > Len(archives) THEN [archives |-> archives, raised |-> FALSE]
    ELSE LET r == reset_conflicts(cf, gf, archives[idx])
             refreshed == [archives EXCEPT ![idx] = r.ai]
         IN  IF r.raised THEN [archives |-> refreshed, raised |-> TRUE]
             ELSE initiate_conflicts_detection_loop(cf, gf, refreshed, idx + 1)

initiate_conflicts_detection(cf, gf, archives) ==
    initiate_conflicts_detection_loop(cf, gf, archives, 1)

\* MainWindow._on_action_open_done
AddArchive(name) ==
    /\ name \in user_archives
    /\ name \notin Registered
    /\ name \notin repository
    /\ repository' = repository \cup {name}
    /\ LET ai == ArchiveInstance(loosefiles, name, ArchiveContent(name))
           archives == Append(managed_archives, ai)
           cf == conflicts_process_files(conflicts, disk, dirs, ai.file_list,
                                         archives, name, {})
           r == refresh_list_item_state(loosefiles, cf, gamefiles, archives)
       IN  /\ conflicts' = cf
           /\ managed_archives' = r.archives
           /\ last' = [op |-> "add", names |-> <<name>>, aborted |-> r.raised]
    /\ UNCHANGED <<loosefiles, disk, dirs, user_archives, gamefiles, window, batch>>

\* MainWindow._do_delete_selected_file on one archive, with _remove_row
RemoveArchive(name) ==
    /\ name \in Registered
    /\ ~has_matched(Archive(name))
    /\ LET archives == SelectSeq(managed_archives, LAMBDA ai : ai.archive_name # name)
       IN  /\ managed_archives' = archives
           /\ conflicts' = generate_conflicts_between_archives(conflicts, disk, dirs, archives)
    /\ last' = [op |-> "remove", names |-> <<name>>, aborted |-> FALSE]
    /\ repository' = repository \ {name}
    /\ UNCHANGED <<loosefiles, disk, dirs, user_archives, gamefiles, window, batch>>

NoFault == [at |-> 0, tool |-> "ok", fail |-> 0]

\* what can go wrong in one batch: the external tool fails on the archive
\* number `at` of the selection, or the copy of its file number `fail` does
Faults(sel) ==
    {NoFault} \cup
    {[at |-> k, tool |-> t, fail |-> 0] : k \in 1..Len(sel), t \in {"error", "empty", "nostart"}} \cup
    UNION {{[at |-> k, tool |-> "ok", fail |-> n] : n \in 1..Len(ArchiveContent(sel[k]))} :
               k \in 1..Len(sel)}

\* the body of the loop of MainWindow._do_install_selected_mod, on the
\* archive number k of the selection; the statuses are those the archives
\* stored at the last refresh
install_step(archives, sel, k, fault, st) ==
    LET ai == archives[CHOOSE a \in 1..Len(archives) : archives[a].archive_name = sel[k]]
    IN  IF all_matching(ai) \/ empty(ai)
        THEN st
        ELSE IF has_matched(ai)
        THEN [st EXCEPT !.skipped = Append(@, sel[k])]
        ELSE IF \E i \in 1..Len(sel) : sel[i] \in known_conflictors(ai)
        THEN [st EXCEPT !.conflictors = Append(@, sel[k])]
        ELSE LET r == install_archive(st.lf, st.dk, st.ds, ai, install_info(st.lf, ai),
                          IF fault.at = k THEN fault.tool ELSE "ok",
                          IF fault.at = k THEN fault.fail ELSE 0)
             IN  IF r.raised THEN [st EXCEPT !.raised = TRUE]
                 ELSE [st EXCEPT !.lf = r.lf, !.dk = r.dk, !.ds = r.ds,
                                 !.changes = @ \/ r.files,
                                 !.installed = Append(@, sel[k])]

\* the loop of MainWindow._do_install_selected_mod over the selection
RECURSIVE install_loop(_, _, _, _)
install_loop(sel, k, fault, st) ==
    IF k > Len(sel) THEN st
    ELSE CHOOSE out \in {IF s.raised THEN s ELSE install_loop(sel, k + 1, fault, s) :
                             s \in {install_step(managed_archives, sel, k, fault, st)}} : TRUE

\* MainWindow._do_install_selected_mod; an exception leaving install_archive
\* leaves the handler too, before the refresh
InstallSelected(sel, fault) ==
    \E st \in {install_loop(sel, 1, fault,
                   [lf |-> loosefiles, dk |-> disk, ds |-> dirs, changes |-> FALSE,
                    skipped |-> <<>>, conflictors |-> <<>>, installed |-> <<>>,
                    raised |-> FALSE])} :
    \E changes \in {st.changes /\ ~st.raised} :
    \E cf \in {IF changes
                THEN generate_conflicts_between_archives(conflicts, st.dk, st.ds,
                                                         managed_archives)
                ELSE conflicts} :
    \E r \in {IF changes
               THEN refresh_list_item_state(st.lf, cf, gamefiles, managed_archives)
               ELSE [archives |-> managed_archives, raised |-> FALSE]} :
        /\ Entries(st.lf) <= MaxEntries
        /\ loosefiles' = st.lf
        /\ disk' = st.dk
        /\ dirs' = st.ds
        /\ conflicts' = cf
        /\ managed_archives' = r.archives
        /\ last' = [op |-> "install", names |-> sel, ok |-> changes,
                    raised |-> st.raised, aborted |-> st.raised \/ r.raised,
                    skipped |-> st.skipped, conflictors |-> st.conflictors,
                    installed |-> st.installed]
        /\ window' = _do_enable_autorefresh(window, ~st.raised)
        /\ UNCHANGED <<user_archives, gamefiles, batch, repository>>

\* the files unlink() can be refused on
DeniedSets == {{}, {P1}}

\* the loop of MainWindow._do_uninstall_selected_mod over the selection
RECURSIVE uninstall_loop(_, _, _, _)
uninstall_loop(sel, k, denied, st) ==
    IF k > Len(sel) THEN st
    ELSE LET ai == Archive(sel[k])
         IN  IF has_mismatched(ai)
             THEN uninstall_loop(sel, k + 1, denied,
                                 [st EXCEPT !.mismatched = Append(@, sel[k])])
             ELSE LET r == uninstall_files(st.lf, st.dk, st.ds,
                                           uninstall_info(st.dk, st.ds, ai), denied)
                  IN  uninstall_loop(sel, k + 1, denied,
                          [st EXCEPT !.lf = r.lf, !.dk = r.dk, !.ds = r.ds,
                                     !.failure = @ \/ ~r.success])

\* MainWindow._do_uninstall_selected_mod
UninstallSelected(sel, denied) ==
    \E st \in {uninstall_loop(sel, 1, denied,
                   [lf |-> loosefiles, dk |-> disk, ds |-> dirs, mismatched |-> <<>>,
                    failure |-> FALSE])} :
    \E cf \in {generate_conflicts_between_archives(conflicts, st.dk, st.ds,
                                                    managed_archives)} :
    \E r \in {refresh_list_item_state(st.lf, cf, gamefiles, managed_archives)} :
        /\ loosefiles' = st.lf
        /\ disk' = st.dk
        /\ dirs' = st.ds
        /\ conflicts' = cf
        /\ managed_archives' = r.archives
        /\ last' = [op |-> "uninstall", names |-> sel, ok |-> ~st.failure,
                    aborted |-> r.raised]
        /\ window' = _do_enable_autorefresh(window, TRUE)
        /\ UNCHANGED <<user_archives, gamefiles, batch, repository>>

\* MainWindow.on_window_activate entered with the window fields w; the
\* repository holds the registered archives, so that ArchivesCollection.refresh
\* yields no event.  _is_mod_repo_dirty is reset after the refresh, which an
\* exception skips.
on_window_activate(w) ==
    LET dirty == w.is_mod_repo_dirty
        w1 == IF ~w.wd_archives /\ w.autorefresh THEN [w EXCEPT !.wd_archives = TRUE] ELSE w
        w2 == IF dirty /\ w.autorefresh THEN [w1 EXCEPT !.wd_modules = TRUE] ELSE w1
        lf == IF dirty THEN build_loose_files_crc32(disk, dirs) ELSE loosefiles
        cf == IF dirty
              THEN generate_conflicts_between_archives(conflicts, disk, dirs, managed_archives)
              ELSE conflicts
        d == IF dirty THEN initiate_conflicts_detection(cf, gamefiles, managed_archives)
             ELSE [archives |-> managed_archives, raised |-> FALSE]
        r == IF dirty /\ ~d.raised
             THEN refresh_list_item_state(lf, cf, gamefiles, d.archives)
             ELSE d
    IN  [lf |-> lf, cf |-> cf, archives |-> r.archives, raised |-> r.raised,
         detected |-> dirty,
         w |-> IF dirty /\ ~r.raised THEN [w2 EXCEPT !.is_mod_repo_dirty = FALSE] ELSE w2]

\* MainWindow._do_list_refresh_button_triggered: on_window_activate with the
\* mod folder flagged dirty
Rescan ==
    /\ ~window.autorefresh
    /\ \E r \in {on_window_activate([window EXCEPT !.is_mod_repo_dirty = TRUE])} :
           /\ loosefiles' = r.lf
           /\ conflicts' = r.cf
           /\ managed_archives' = r.archives
           /\ window' = r.w
           /\ last' = [op |-> "rescan", aborted |-> r.raised]
    /\ UNCHANGED <<disk, dirs, user_archives, gamefiles, batch, repository>>

Next ==
    \/ \E name \in ArchiveNames : AddArchive(name)
    \/ \E name \in ArchiveNames : RemoveArchive(name)
    \/ \E sel \in Selections : \E fault \in Faults(sel) : InstallSelected(sel, fault)
    \/ \E sel \in Selections : \E denied \in DeniedSets : UninstallSelected(sel, denied)
    \/ Rescan

Spec == Init /\ [][Next]_vars

----------------------------------------------------------------------------
(* The handlers together with direct calls of the ContentIndex primitives  *)
(* on the path the two archives of the repository share.                   *)

SharedPaths == {P1}

NextAll ==
    \/ Next
    \/ \E crc \in Hashes, path \in SharedPaths : IndexLoose(crc, path)
    \/ \E crc \in Hashes, path \in SharedPaths : RemoveLoose(crc, path)

SpecAll == Init /\ [][NextAll]_vars

----------------------------------------------------------------------------
(* Conflict detection over a repository of three archives, two of which    *)
(* hold the same file: each handler on one archive, nothing going wrong.   *)

\* MainWindow._init_mods with an empty repository and an empty mod folder
InitConflicts ==
    /\ disk = EmptyDisk
    /\ dirs = {}
    /\ loosefiles = EmptyMap
    /\ conflicts = EmptyMap
    /\ managed_archives = <<>>
    /\ user_archives = ArchiveNames
    /\ gamefiles = EmptyMap
    /\ window = InitWindow(FALSE)
    /\ batch = NoBatch
    /\ repository = {}
    /\ last = [op |-> "none"]

NextConflicts ==
    \/ \E name \in ArchiveNames : AddArchive(name)
    \/ \E name \in ArchiveNames : RemoveArchive(name)
    \/ \E sel \in Selections : Len(sel) = 1 /\ InstallSelected(sel, NoFault)
    \/ \E sel \in Selections : Len(sel) = 1 /\ UninstallSelected(sel, {})
    \/ Rescan

SpecConflicts == InitConflicts /\ [][NextConflicts]_vars

\* the same repository, archives installed and uninstalled in batches
NextSelect ==
    \/ \E name \in ArchiveNames : AddArchive(name)
    \/ \E sel \in Selections : InstallSelected(sel, NoFault)
    \/ \E sel \in Selections : UninstallSelected(sel, {})

SpecSelect == InitConflicts /\ [][NextSelect]_vars

----------------------------------------------------------------------------
(* The handlers over a repository whose archives overlap on one file, one  *)
(* of them bringing a second file: installs that go wrong part-way.        *)

InitFaults ==
    /\ disk = EmptyDisk
    /\ dirs = {}
    /\ loosefiles = EmptyMap
    /\ conflicts = EmptyMap
    /\ managed_archives = <<>>
    /\ user_archives = {"B.7z", "C.7z"}
    /\ gamefiles = EmptyMap
    /\ window = InitWindow(FALSE)
    /\ batch = NoBatch
    /\ repository = {}
    /\ last = [op |-> "none"]

SpecFaults == InitFaults /\ [][Next]_vars

-----------------------------------------------------------------------------
(* The handlers beside a base game: build_game_files_crc32 has indexed one  *)
(* file of the game, under the hash and path of an archive's file, under   *)
(* its path alone, or under its hash alone.                                *)

GameIndexes ==
    {(1 :> FileMetadata(1, P1, "F")),
     (2 :> FileMetadata(2, P1, "F")),
     (1 :> FileMetadata(1, P2, "F"))}

InitGame ==
    /\ disk = EmptyDisk
    /\ dirs = {}
    /\ loosefiles = EmptyMap
    /\ conflicts = EmptyMap
    /\ managed_archives = <<>>
    /\ user_archives = {"A.7z", "B.7z"}
    /\ gamefiles \in GameIndexes
    /\ window = InitWindow(FALSE)
    /\ batch = NoBatch
    /\ repository = {}
    /\ last = [op |-> "none"]

SpecGame == InitGame /\ [][Next]_vars

----------------------------------------------------------------------------
(* An install batch step by step.  The loop of _do_install_selected_mod    *)
(* opens each iteration with p_dialog.progress(), which calls            *)
(* qApp.processEvents(): the events the application has pending are       *)
(* handled there, between the archives of the batch.  The auto-refresh    *)
(* checkbox is checked.                                                    *)

BatchArchives == {"A.7z", "D.7z"}

InitBatch ==
    /\ disk = EmptyDisk
    /\ dirs = {}
    /\ loosefiles = EmptyMap
    /\ conflicts = EmptyMap
    /\ managed_archives = <<>>
    /\ user_archives = BatchArchives
    /\ gamefiles = EmptyMap
    /\ window = InitWindow(TRUE)
    /\ batch = NoBatch
    /\ repository = {}
    /\ last = [op |-> "none"]

\* the event loop hands an event to its handler: no handler is running, or
\* the install loop is at the top of an iteration
EventsProcessed ==
    \/ batch.pc = "idle"
    \/ batch.pc = "install" /\ batch.k <= Len(batch.sel)

\* _do_install_selected_mod up to its loop.  detected is history: conflict
\* detection ran since the batch began.
BeginInstall(sel) ==
    /\ batch.pc = "idle"
    /\ window' = _do_enable_autorefresh(window, FALSE)
    /\ batch' = [pc |-> "install", sel |-> sel, k |-> 1, changes |-> FALSE,
                 skipped |-> <<>>, conflictors |-> <<>>, installed |-> <<>>,
                 detected |-> FALSE]
    /\ last' = [op |-> "begin_install", names |-> sel]
    /\ UNCHANGED <<loosefiles, conflicts, disk, dirs, managed_archives, user_archives,
                   gamefiles, repository>>

\* one iteration of the loop, on the archive number batch.k; an exception
\* leaves the handler
InstallStep(tool) ==
    /\ batch.pc = "install"
    /\ batch.k <= Len(batch.sel)
    /\ \E s \in {install_step(managed_archives, batch.sel, batch.k,
                               [at |-> batch.k, tool |-> tool, fail |-> 0],
                               [lf |-> loosefiles, dk |-> disk, ds |-> dirs,
                                changes |-> batch.changes, skipped |-> batch.skipped,
                                conflictors |-> batch.conflictors,
                                installed |-> batch.installed, raised |-> FALSE])} :
           /\ Entries(s.lf) <= MaxEntries
           /\ loosefiles' = s.lf
           /\ disk' = s.dk
           /\ dirs' = s.ds
           /\ batch' = IF s.raised THEN NoBatch
                       ELSE [batch EXCEPT !.k = @ + 1, !.changes = s.changes,
                                          !.skipped = s.skipped,
                                          !.conflictors = s.conflictors,
                                          !.installed = s.installed]
           /\ last' = IF s.raised
                      THEN [op |-> "install", names |-> batch.sel, ok |-> FALSE,
                            raised |-> TRUE, aborted |-> TRUE, skipped |-> s.skipped,
                            conflictors |-> s.conflictors, installed |-> s.installed]
                      ELSE [op |-> "install_step", names |-> batch.sel]
    /\ UNCHANGED <<conflicts, managed_archives, user_archives, gamefiles, window, repository>>

\* _do_install_selected_mod after its loop
EndInstall ==
    /\ batch.pc = "install"
    /\ batch.k > Len(batch.sel)
    /\ LET cf == IF batch.changes
                 THEN generate_conflicts_between_archives(conflicts, disk, dirs,
                                                          managed_archives)
                 ELSE conflicts
           r == IF batch.changes
                THEN refresh_list_item_state(loosefiles, cf, gamefiles, managed_archives)
                ELSE [archives |-> managed_archives, raised |-> FALSE]
       IN  /\ conflicts' = cf
           /\ managed_archives' = r.archives
           /\ last' = [op |-> "install", names |-> batch.sel, ok |-> batch.changes,
                       raised |-> FALSE, aborted |-> r.raised, skipped |-> batch.skipped,
                       conflictors |-> batch.conflictors, installed |-> batch.installed]
    /\ window' = _do_enable_autorefresh(window, TRUE)
    /\ batch' = NoBatch
    /\ UNCHANGED <<loosefiles, disk, dirs, user_archives, gamefiles, repository>>

\* the event filter on ApplicationInactive, with on_window_deactivate
WindowDeactivate ==
    /\ EventsProcessed
    /\ window.autorefresh
    /\ window' = [window EXCEPT !.previous_state = FALSE, !.wd_archives = FALSE]
    /\ last' = [op |-> "deactivate"]
    /\ UNCHANGED <<loosefiles, conflicts, disk, dirs, managed_archives, user_archives,
                   gamefiles, batch, repository>>

\* the event filter on ApplicationActive, the window where it was
WindowActivate ==
    /\ EventsProcessed
    /\ window.autorefresh
    /\ ~window.previous_state
    /\ \E r \in {on_window_activate(window)} :
           /\ loosefiles' = r.lf
           /\ conflicts' = r.cf
           /\ managed_archives' = r.archives
           /\ window' = [r.w EXCEPT !.previous_state = ~r.raised]
           /\ batch' = IF batch.pc = "install" /\ r.detected
                       THEN [batch EXCEPT !.detected = TRUE]
                       ELSE batch
           /\ last' = [op |-> "activate", aborted |-> r.raised]
    /\ UNCHANGED <<disk, dirs, user_archives, gamefiles, repository>>

\* MainWindow._mod_repo_watch_cb on a file of the mod folder touched from
\* outside the program, its content unchanged
ModFolderTouched ==
    /\ EventsProcessed
    /\ window.wd_modules
    /\ window' = [window EXCEPT !.is_mod_repo_dirty = TRUE, !.wd_modules = FALSE]
    /\ last' = [op |-> "touched"]
    /\ UNCHANGED <<loosefiles, conflicts, disk, dirs, managed_archives, user_archives,
                   gamefiles, batch, repository>>

NextBatch ==
    \/ \E name \in BatchArchives : batch.pc = "idle" /\ AddArchive(name)
    \/ \E sel \in Selections : BeginInstall(sel)
    \/ \E tool \in {"ok", "error", "nostart"} : InstallStep(tool)
    \/ EndInstall
    \/ \E sel \in Selections : batch.pc = "idle" /\ UninstallSelected(sel, {})
    \/ WindowDeactivate
    \/ WindowActivate
    \/ ModFolderTouched

SpecBatch == InitBatch /\ [][NextBatch]_vars

----------------------------------------------------------------------------
(* filehandler.py: ArchivesCollection.refresh over a repository directory  *)
(* that changes outside the program, beside the operations of bucket.py   *)
(* on the index.  Every archive of the directory can be listed.            *)

\* what the repository directory may hold: two archives, a file that is no
\* archive, a directory named like an archive
RepoEntries == {"A.7z", "D.7z", "notes.txt", "folder.7z"}

\* entry.is_file()
entry_is_file(entry) == entry # "folder.7z"

\* entry.suffix
entry_suffix(entry) == IF entry = "notes.txt" THEN ".txt" ELSE ".7z"

\* valid_suffixes("pathlib")
valid_suffixes == {".7z", ".zip", ".rar"}

FileAdded == 1
FileRemoved == 2

\* ArchivesCollection.find(archive_name=...)
find(archives, archive_name) ==
    \E a \in 1..Len(archives) : archives[a].archive_name = archive_name

\* ArchivesCollection.add_archive
add_archive(lf, archives, name) ==
    IF find(archives, name)
    THEN [a \in 1..Len(archives) |->
              IF archives[a].archive_name = name
              THEN ArchiveInstance(lf, name, ArchiveContent(name))
              ELSE archives[a]]
    ELSE Append(archives, ArchiveInstance(lf, name, ArchiveContent(name)))

\* the entries of the directory that refresh takes for archives
Found(repo) ==
    {entry \in repo : entry_is_file(entry) /\ entry_suffix(entry) \in valid_suffixes}

\* the orders in which repo.glob("*.*") may list the archives not registered
\* yet; the place of the other entries changes nothing
GlobOrders(archives, repo) ==
    LET new == {entry \in Found(repo) : ~find(archives, entry)}
    IN  {order \in [1..Cardinality(new) -> new] :
            \A i, j \in 1..Cardinality(new) : i # j => order[i] # order[j]}

\* the first loop of refresh, from the new archive number i on
RECURSIVE refresh_scan(_, _, _, _, _)
refresh_scan(lf, archives, order, i, events) ==
    IF i > Len(order) THEN [archives |-> archives, events |-> events]
    ELSE IF ~find(archives, order[i])
    THEN refresh_scan(lf, add_archive(lf, archives, order[i]), order, i + 1,
                      Append(events, <<FileAdded, order[i]>>))
    ELSE refresh_scan(lf, archives, order, i + 1, events)

\* the second loop of refresh: the archives of the registry the directory
\* no longer holds, in dict order
Ghosts(archives, found) ==
    SelectSeq(archives, LAMBDA ai : ai.archive_name \notin found)

\* ArchivesCollection.refresh consumed to its end, with the events it yields
refresh_keeping_ghosts(lf, archives, repo, order) ==
    LET scanned == refresh_scan(lf, archives, order, 1, <<>>)
        ghosts == Ghosts(scanned.archives, Found(repo))
    IN  [archives |-> scanned.archives,
         events |-> scanned.events \o
                    [g \in 1..Len(ghosts) |-> <<FileRemoved, ghosts[g].archive_name>>]]

refresh(lf, archives, repo, order) ==
    LET scanned == refresh_scan(lf, archives, order, 1, <<>>)
        ghosts == Ghosts(scanned.archives, Found(repo))
    IN  [archives |-> SelectSeq(scanned.archives,
                                LAMBDA ai : ai.archive_name \in Found(repo)),
         events |-> scanned.events \o
                    [g \in 1..Len(ghosts) |-> <<FileRemoved, ghosts[g].archive_name>>]]

InitRefresh ==
    /\ disk = EmptyDisk
    /\ dirs = {}
    /\ loosefiles = EmptyMap
    /\ conflicts = EmptyMap
    /\ managed_archives = <<>>
    /\ user_archives = {}
    /\ gamefiles \in GameIndexes
    /\ window = InitWindow(FALSE)
    /\ batch = NoBatch
    /\ repository = {}
    /\ last = [op |-> "none"]

\* an entry appears in the repository directory
RepoEntryCreated(entry) ==
    /\ entry \notin repository
    /\ repository' = repository \cup {entry}
    /\ last' = [op |-> "created", names |-> <<entry>>]
    /\ UNCHANGED <<loosefiles, conflicts, disk, dirs, managed_archives, user_archives,
                   gamefiles, window, batch>>

\* an entry disappears from the repository directory
RepoEntryDeleted(entry) ==
    /\ entry \in repository
    /\ repository' = repository \ {entry}
    /\ last' = [op |-> "deleted", names |-> <<entry>>]
    /\ UNCHANGED <<loosefiles, conflicts, disk, dirs, managed_archives, user_archives,
                   gamefiles, window, batch>>

\* for etype, archive_name in managed_archives.refresh(): consumed to its end
Refresh(order) ==
    /\ LET r == refresh(loosefiles, managed_archives, repository, order)
       IN  /\ managed_archives' = r.archives
           /\ last' = [op |-> "refresh", events |-> r.events]
    /\ UNCHANGED <<loosefiles, conflicts, disk, dirs, user_archives, gamefiles, window,
                   batch, repository>>

NextRefresh ==
    \/ \E entry \in RepoEntries : RepoEntryCreated(entry)
    \/ \E entry \in RepoEntries : RepoEntryDeleted(entry)
    \/ \E order \in GlobOrders(managed_archives, repository) : Refresh(order)
    \/ \E crc \in Hashes, path \in SharedPaths : IndexLoose(crc, path)
    \/ \E crc \in Hashes, path \in SharedPaths : RemoveLoose(crc, path)

SpecRefresh == InitRefresh /\ [][NextRefresh]_vars

----------------------------------------------------------------------------
(* uninstall_files on its own: called on any list of records, in any       *)
(* order, over a mod folder holding some of them.                          *)

\* the records a list handed to uninstall_files is made of
UninstallRecords ==
    {FileMetadata(0, DCat, "D"), FileMetadata(0, DSock, "D"),
     FileMetadata(1, P1, "F"), FileMetadata(1, P2, "F")}

\* the length of the list handed to uninstall_files
MaxList == 4

UninstallLists ==
    {l \in UNION {[1..n -> UninstallRecords] : n \in 1..MaxList} :
        \A i, j \in 1..Len(l) : i # j => l[i] # l[j]}

\* a mod folder holding some of the files, in their directories, or some of
\* the directories alone
InitUninstall ==
    /\ disk \in {dk \in [FilePaths -> {NoFile, 1}] :
                    \A path \in FilePaths \ {P1, P2} : dk[path] = NoFile}
    /\ dirs \in {ds \in SUBSET DirPaths :
                    /\ DSock \in ds => DCat \in ds
                    /\ \A path \in FilePaths : \A d \in DirPaths :
                           (disk[path] # NoFile /\ Inside(path, d)) => d \in ds}
    /\ loosefiles = build_loose_files_crc32(disk, dirs)
    /\ conflicts = EmptyMap
    /\ managed_archives = <<>>
    /\ user_archives = {}
    /\ gamefiles = EmptyMap
    /\ window = InitWindow(FALSE)
    /\ batch = NoBatch
    /\ repository = {}
    /\ last = NoOp

UninstallList(file_list, denied) ==
    LET r == uninstall_files(loosefiles, disk, dirs, file_list, denied)
    IN  /\ loosefiles' = r.lf
        /\ disk' = r.dk
        /\ dirs' = r.ds
        /\ last' = [op |-> "uninstall_files", file_list |-> file_list,
                    log |-> r.log, ok |-> r.success]
        /\ UNCHANGED <<conflicts, managed_archives, user_archives, gamefiles, window, batch, repository>>

NextUninstall ==
    \E file_list \in UninstallLists : \E denied \in DeniedSets :
        UninstallList(file_list, denied)

SpecUninstall == InitUninstall /\ [][NextUninstall]_vars

----------------------------------------------------------------------------
(* Properties of the classifier and of the ContentIndex primitives         *)

\* every record the classifier can be handed
Records ==
    {FileMetadata(crc, path, "F") : crc \in Hashes, path \in FilePaths}
        \cup {FileMetadata(0, path, "D") : path \in DirPaths}

\* an entry with this hash at this path is in the index
HasEntry(lf, crc, path) ==
    crc \in DOMAIN lf /\ \E i \in 1..Len(lf[crc]) : lf[crc][i].path = path

\* the path is in the index, under whatever hash
HasPath(lf, path) == \E crc \in DOMAIN lf : HasEntry(lf, crc, path)

JunkOrBadSuffix(file) ==
    \/ Name(file.path) \in {".DS_Store", "__MACOSX", "Thumbs.db"}
    \/ Suffix(Name(file.path)) \notin {"", ".xml", ".svg"}

C4_PathUnderOtherHashIsMismatched ==
    \A f \in Records :
        ( /\ f.attributes = "F"
          /\ ~JunkOrBadSuffix(f)
          /\ ~_bad_directory_structure(f.path)
          /\ HasPath(loosefiles, f.path)
          /\ ~HasEntry(loosefiles, f.crc, f.path) )
            => file_status(loosefiles, disk, dirs, f) = MISMATCHED

\* C5 as stated: index_loose(h, p) directly followed by remove_loose(record(h, p))
\* leaves no bucket for h, from any content of the index.
C5_RoundTripFromAnyIndex ==
    (last.op = "remove_loose" /\ last.follows)
        => /\ ~file_crc_in_loosefiles(loosefiles, FileMetadata(last.crc, last.path, "F"))
           /\ last.crc \notin DOMAIN loosefiles

\* C5 amended: when h had no bucket before index_loose(h, p), index_loose(h, p)
\* directly followed by remove_loose(record(h, p)) leaves contains_hash(h)
\* false and no bucket for h.
C5_RoundTrip ==
    (last.op = "remove_loose" /\ last.follows /\ last.fresh)
        => /\ ~file_crc_in_loosefiles(loosefiles, FileMetadata(last.crc, last.path, "F"))
           /\ last.crc \notin DOMAIN loosefiles

\* C5 witness: the round trip was run on a hash that had no bucket, next to
\* another bucket that is kept
C5_Witness ==
    /\ last.op = "remove_loose" /\ last.follows /\ last.fresh
    /\ DOMAIN loosefiles # {}

\* the index without the first entry of hash crc at path
WithoutEntry(lf, crc, path) ==
    IF ~HasEntry(lf, crc, path) THEN lf
    ELSE LET i == CHOOSE i \in 1..Len(lf[crc]) :
                      /\ lf[crc][i].path = path
                      /\ \A j \in 1..(i - 1) : lf[crc][j].path # path
             rest == SubSeq(lf[crc], 1, i - 1) \o SubSeq(lf[crc], i + 1, Len(lf[crc]))
         IN  IF rest = <<>> THEN [c \in DOMAIN lf \ {crc} |-> lf[c]]
             ELSE [lf EXCEPT ![crc] = rest]

\* C6: remove_loose(record(h, p)) removes exactly one entry of hash h at path p
\* and leaves every other entry as it was; with no such entry the index is
\* left unchanged.
C6_RemovesExactlyTheEntry ==
    [][last'.op = "remove_loose"
          => loosefiles' = WithoutEntry(loosefiles, last'.crc, last'.path)]_vars

----------------------------------------------------------------------------
(* Properties of the handlers                                              *)

\* the (hash, path) pairs the index holds
LoosePairs(lf) ==
    UNION {{<<crc, lf[crc][i].path>> : i \in 1..Len(lf[crc])} : crc \in DOMAIN lf}

\* the regular files of the mod folder with their CRC32
DiskPairs(dk) == {<<dk[path], path>> : path \in {q \in DOMAIN dk : dk[q] # NoFile}}

\* C1: with the handlers run one after the other and nothing else touching
\* the mod folder, the (hash, path) pairs of loose_files are the regular files
\* on disk with their CRC32, also after an install or uninstall that failed.
C1_LooseFilesMirrorDisk == LoosePairs(loosefiles) = DiskPairs(disk)

\* the file records of the registered archive number a
FileRecords(a) ==
    {i \in 1..Len(managed_archives[a].file_list) :
        managed_archives[a].file_list[i].attributes = "F"}

\* C2: an archive record (p, h2) whose path holds a loose file of another hash
\* is Mismatched; after an install that ran with the record in the mismatched
\* set the record is Matched and (h2, p) is the only loose entry at p.
C2_MismatchedThenInstalled ==
    /\ [](\A a \in 1..Len(managed_archives) : \A i \in FileRecords(a) :
            LET f == managed_archives[a].file_list[i]
            IN  ( /\ filehandler_file_status(EmptyMap, f) # IGNORED
                  /\ HasPath(loosefiles, f.path)
                  /\ ~HasEntry(loosefiles, f.crc, f.path) )
                    => filehandler_file_status(loosefiles, f) = MISMATCHED)
    /\ [][\A a \in 1..Len(managed_archives) : \A i \in FileRecords(a) :
            LET f == managed_archives[a].file_list[i]
            IN  ( /\ last'.op = "install" /\ last'.ok
                  /\ last'.names = <<managed_archives[a].archive_name>>
                  /\ managed_archives[a].meta[i] = MISMATCHED )
                    => /\ filehandler_file_status(loosefiles', f) = MATCHED
                       /\ \A crc \in Hashes :
                              HasEntry(loosefiles', crc, f.path) <=> crc = f.crc]_vars

\* C7: no hash key of loose_files maps to an empty list, whatever sequence of
\* index_loose, remove_loose, install, uninstall and rescan led to the state.
C7_NoEmptyBucket == \A crc \in DOMAIN loosefiles : loosefiles[crc] # <<>>

\* C7 witness: with a file installed, an entry was indexed and removed again,
\* which emptied its bucket
C7_Witness ==
    /\ last.op = "remove_loose" /\ last.follows
    /\ last.crc \notin DOMAIN loosefiles
    /\ DOMAIN loosefiles # {}
    /\ \E path \in FilePaths : disk[path] # NoFile

\* archive ai declares a non-directory record at path with this hash
Declares(ai, path, crc) ==
    \E i \in 1..Len(ai.file_list) :
        /\ ai.file_list[i].attributes # "D"
        /\ ai.file_list[i].path = path
        /\ ai.file_list[i].crc = crc

\* two archives declare the path with different hashes
Differ(ai, bi, path) ==
    \E h1, h2 \in Hashes : h1 # h2 /\ Declares(ai, path, h1) /\ Declares(bi, path, h2)

\* the names listed under a key of conflicts
Listed(cf, path) == {cf[path][i] : i \in 1..Len(cf[path])}

\* the last handler ended with generate_conflicts_between_archives over the
\* whole registry
DetectRan == last.op \in {"remove", "uninstall", "rescan"}

\* C8: after detect_conflicts, for every two registered archives declaring a
\* non-directory record at p with different hashes, conflicts[p] exists and
\* lists both names, whatever the order of the registry and also when a third
\* archive declares p with the hash of one of the two.
C8_ConflictListsBoth ==
    DetectRan =>
        \A a, b \in 1..Len(managed_archives) : \A path \in FilePaths :
            Differ(managed_archives[a], managed_archives[b], path)
                => /\ path \in DOMAIN conflicts
                   /\ managed_archives[a].archive_name \in Listed(conflicts, path)
                   /\ managed_archives[b].archive_name \in Listed(conflicts, path)

\* C9: after detect_conflicts is re-run, conflicts has a key p only if two
\* registered archives declare p with different hashes, and every name under
\* p is a registered archive that declares p.
C9_NoStaleConflict ==
    DetectRan =>
        \A path \in DOMAIN conflicts :
            /\ \E a, b \in 1..Len(managed_archives) :
                   Differ(managed_archives[a], managed_archives[b], path)
            /\ \A name \in Listed(conflicts, path) :
                   /\ name \in Registered
                   /\ \E crc \in Hashes : Declares(Archive(name), path, crc)

\* C10: for an archive declaring a file record (p, h) and a record for the
\* directory holding p, with loose_files empty both records are Missing, and
\* after the install of the archive loose_files holds h at p and both the
\* file record and the directory record are Matched.
C10_DirectoryMatchedAfterInstall ==
    [][\A a \in 1..Len(managed_archives) :
         \A i, j \in 1..Len(managed_archives[a].file_list) :
            LET f == managed_archives[a].file_list[i]
                d == managed_archives[a].file_list[j]
            IN  ( /\ f.attributes = "F" /\ d.attributes = "D"
                  /\ Inside(f.path, d.path)
                  /\ loosefiles = EmptyMap
                  /\ last'.op = "install" /\ last'.ok
                  /\ last'.names = <<managed_archives[a].archive_name>> )
                    => /\ file_status(loosefiles, disk, dirs, f) = MISSING
                       /\ file_status(loosefiles, disk, dirs, d) = MISSING
                       /\ HasEntry(loosefiles', f.crc, f.path)
                       /\ file_status(loosefiles', disk', dirs', f) = MATCHED
                       /\ file_status(loosefiles', disk', dirs', d) = MATCHED]_vars

\* the archive selected alone is handed to install_archive
Installable(ai) ==
    /\ ~(all_matching(ai) \/ empty(ai))
    /\ ~has_matched(ai)

\* C11: when the copy of one extracted file fails during install, the other
\* extracted files are still copied and indexed, the entries of the
\* Mismatched records are still removed, and the call reports failure.
C11_CopyFailureSkipsOneFile ==
    [][\A sel \in Selections : \A fault \in Faults(sel) :
         LET ai == Archive(sel[1])
             ctx == install_info(loosefiles, ai)
             files == extract7z(ai, ctx)
         IN  ( /\ Len(sel) = 1 /\ Installable(ai)
               /\ fault.tool = "ok" /\ fault.fail \in 1..Len(files)
               /\ files[fault.fail].attributes = "F"
               /\ InstallSelected(sel, fault) )
                 => /\ ~last'.ok
                    /\ \A k \in 1..Len(files) :
                           (k # fault.fail /\ files[k].attributes = "F")
                               => /\ disk'[files[k].path] = files[k].crc
                                  /\ HasEntry(loosefiles', files[k].crc, files[k].path)
                    /\ \A m \in 1..Len(ctx.mismatched) :
                           ~HasEntry(loosefiles', ctx.mismatched[m].crc,
                                     ctx.mismatched[m].path)]_vars

\* C12: when the extraction yields no extracted file, because the tool handed
\* back an empty list or because it could not be started, install reports
\* failure without raising an exception and leaves loose_files unchanged.
C12_NoExtractionChangesNothing ==
    [][\A sel \in Selections : \A fault \in Faults(sel) :
         ( /\ Len(sel) = 1 /\ Installable(Archive(sel[1]))
           /\ fault.tool \in {"empty", "nostart"}
           /\ InstallSelected(sel, fault) )
             => /\ ~last'.ok
                /\ ~last'.raised
                /\ loosefiles' = loosefiles]_vars

\* the records of the list unlink() removes: on disk and not refused
Deletable(recs, denied) ==
    SelectSeq(recs, LAMBDA f : /\ f.path \in DOMAIN disk
                               /\ disk[f.path] # NoFile
                               /\ f.path \notin denied)

\* C13: uninstall goes through every record of its input even after a deletion
\* error; it reports failure exactly when the deletion of a non-directory record
\* failed, never for a directory that could not be removed; and remove_loose is
\* applied to the records whose file was deleted, and to no other.
C13_UninstallErrorHandling ==
    [][\A sel \in Selections : \A denied \in DeniedSets :
         LET ai == Archive(sel[1])
             file_list == uninstall_info(disk, dirs, ai)
             files == SelectSeq(file_list, LAMBDA f : f.attributes = "F")
             deleted == Deletable(files, denied)
         IN  ( /\ Len(sel) = 1 /\ ~has_mismatched(ai)
               /\ UninstallSelected(sel, denied) )
                 => /\ \A i \in 1..Len(deleted) : disk'[deleted[i].path] = NoFile
                    /\ last'.ok <=> Len(deleted) = Len(files)
                    /\ loosefiles' = remove_all(loosefiles, deleted)]_vars

\* the place, in the log of the calls, of the call made on the path
Pos(log, path) == CHOOSE i \in 1..Len(log) : log[i].path = path

\* C14: whatever the order of the list handed to uninstall, every non-directory
\* record is deleted before any directory is, and of two directory records the
\* one lying inside the other has its removal attempted first.
C14_FilesThenDeepestDirectoryFirst ==
    last.op = "uninstall_files" =>
        /\ \A i \in 1..Len(last.file_list) :
               \E k \in 1..Len(last.log) : last.log[k].path = last.file_list[i].path
        /\ \A i, j \in 1..Len(last.file_list) :
               LET f == last.file_list[i]
                   d == last.file_list[j]
               IN  (f.attributes = "F" /\ d.attributes = "D"
                        /\ last.log[Pos(last.log, d.path)].call = "rmdir")
                       => Pos(last.log, f.path) < Pos(last.log, d.path)
        /\ \A i, j \in 1..Len(last.file_list) :
               LET d == last.file_list[i]
                   e == last.file_list[j]
               IN  (d.attributes = "D" /\ e.attributes = "D" /\ d # e
                        /\ Inside(e.path, d.path))
                       => Pos(last.log, e.path) < Pos(last.log, d.path)

\* C15: uninstall_info() is the Matched records of the archive followed by all
\* of its directory records, the directory records longest path first, so
\* that a directory comes before the directory it lies in.
C15_UninstallInfoLongestFirst ==
    \A a \in 1..Len(managed_archives) :
        LET ai == managed_archives[a]
            info == uninstall_info(disk, dirs, ai)
            m == matched(ai)
            d == SubSeq(info, Len(m) + 1, Len(info))
        IN  /\ Len(info) >= Len(m)
            /\ SubSeq(info, 1, Len(m)) = m
            /\ {d[i] : i \in 1..Len(d)}
                   = {ai.file_list[i] : i \in {k \in 1..Len(ai.file_list) :
                                                  ai.file_list[k].attributes = "D"}}
            /\ \A i, j \in 1..Len(d) :
                   i < j => /\ PathLen(d[i].path) >= PathLen(d[j].path)
                            /\ ~Inside(d[j].path, d[i].path)

\* C16: reset_conflicts completes without error for every registered archive
\* and records a base-game conflict for every record whose path or hash is
\* that of a base-game file
C16_ResetConflictsRecordsGameFiles ==
    \A a \in 1..Len(managed_archives) :
        LET r == reset_conflicts(conflicts, gamefiles, managed_archives[a])
        IN  /\ ~r.raised
            /\ \A i \in 1..Len(r.ai.file_list) :
                   LET item == r.ai.file_list[i]
                   IN  with_gamefiles(gamefiles, item.crc, item.path)
                           => /\ item.path \in DOMAIN r.ai.game
                              /\ r.ai.game[item.path] # <<>>

\* C17: after each handler that ran to its end (install batch, uninstall
\* batch, archive add, archive removal, disk rescan), the statuses stored by
\* every registered archive are those the classifier gives its records
\* against the current loosefiles
C17_StatusesAreCurrent ==
    (last.op \in {"install", "uninstall", "add", "remove", "rescan"} /\ ~last.aborted)
        => \A a \in 1..Len(managed_archives) :
               managed_archives[a].meta = reset_status(loosefiles, managed_archives[a]).meta

\* C18: in an install batch, every step of the loop that changes loosefiles
\* is taken with both watchers unscheduled and before any conflict detection
\* has run in the batch
C18_WatchersOffDetectionLast ==
    [][(/\ batch.pc = "install"
        /\ batch'.pc = "install"
        /\ batch'.k = batch.k + 1
        /\ loosefiles' # loosefiles)
           => /\ ~window.wd_modules
              /\ ~window.wd_archives
              /\ ~batch.detected]_vars

\* the events of the given type that refresh yielded for the archive
Yielded(events, etype, name) ==
    Cardinality({i \in 1..Len(events) : events[i] = <<etype, name>>})

\* C19: once refresh is consumed, the registered names are the files of the
\* repository directory with a valid suffix, one Added event was yielded per
\* archive newly registered and none for any other, one Removed event per
\* archive dropped and none for any other, and loosefiles and gamefiles are
\* as they were
C19_RefreshMirrorsRepository ==
    [][(\E order \in GlobOrders(managed_archives, repository) : Refresh(order))
          => /\ Registered' = {entry \in repository :
                                   /\ entry_is_file(entry)
                                   /\ entry_suffix(entry) \in valid_suffixes}
             /\ \A name \in RepoEntries :
                    /\ Yielded(last'.events, FileAdded, name)
                           = IF name \in Registered' \ Registered THEN 1 ELSE 0
                    /\ Yielded(last'.events, FileRemoved, name)
                           = IF name \in Registered \ Registered' THEN 1 ELSE 0
             /\ loosefiles' = loosefiles
             /\ gamefiles' = gamefiles]_vars

\* a refresh registered an archive and dropped another, beside a file with
\* another suffix and a directory, the index holding a file
C19_Witness ==
    /\ last.op = "refresh"
    /\ \E i, j \in 1..Len(last.events) :
           last.events[i][1] = FileAdded /\ last.events[j][1] = FileRemoved
    /\ {"notes.txt", "folder.7z"} \subseteq repository
    /\ loosefiles # EmptyMap

\* the names of a sequence
Among(names) == {names[i] : i \in 1..Len(names)}

\* the archive of the selection declares a path under another hash than
\* another archive of the selection does
ConflictsInSelection(sel, k) ==
    \E j \in 1..Len(sel) : \E path \in FilePaths :
        j # k /\ Differ(Archive(sel[k]), Archive(sel[j]), path)

\* C20: in a batch install, an archive fully installed is not installed
\* again; otherwise an archive with a Matched file is not installed and is
\* named in skipped; otherwise an archive conflicting with another archive of
\* the selection is not installed and is named in conflictors; every other
\* archive of the selection is installed
C20_BatchInstallSelection ==
    [][\A sel \in Selections :
          InstallSelected(sel, NoFault) =>
              \A k \in 1..Len(sel) :
                  LET ai == Archive(sel[k])
                  IN  IF all_matching(ai) \/ empty(ai)
                      THEN sel[k] \notin Among(last'.installed)
                      ELSE IF has_matched(ai)
                      THEN /\ sel[k] \notin Among(last'.installed)
                           /\ sel[k] \in Among(last'.skipped)
                      ELSE IF ConflictsInSelection(sel, k)
                      THEN /\ sel[k] \notin Among(last'.installed)
                           /\ sel[k] \in Among(last'.conflictors)
                      ELSE sel[k] \in Among(last'.installed)]_vars

----------------------------------------------------------------------------
(* filehandler.py: list7z and extract7z reading the output of the 7z tool  *)
(* line by line.                                                           *)

\* the lines reErrorMatch matches, as the tool writes them
ErrorTexts == {"ERROR: Data Error", "Sub items Errors: 1"}

\* a line of the output of the tool: the lines naming one record (the block
\* Path .. CRC of a listing, the "- path" line of an extraction), a line
\* reErrorMatch matches, or any other line
RecordLine(f) == [kind |-> "record", rec |-> f, text |-> ""]
ErrorLine(text) == [kind |-> "error", rec |-> NoPath, text |-> text]
OtherLine == [kind |-> "other", rec |-> NoPath, text |-> ""]

\* the lines the tool may write after the last record it reaches
MaxTail == 2

ToolTails ==
    UNION {[1..n -> {ErrorLine(text) : text \in ErrorTexts} \cup {OtherLine}] :
               n \in 0..MaxTail}

\* the exit status of the tool: 0, or 2 (fatal error)
ReturnCodes == {0, 2}

\* the runs of the tool on the records `recs`: it writes the lines of the
\* records it reaches, in order, then what it has to say, and ends with an
\* exit status; a run that reports nothing wrong has reached every record
ToolRuns(recs) ==
    {run \in [lines : {[i \in 1..k |-> RecordLine(recs[i])] \o tail :
                           k \in 0..Len(recs), tail \in ToolTails},
              return_code : ReturnCodes] :
        \/ run.return_code # 0
        \/ \E i \in 1..Len(run.lines) : run.lines[i].kind = "error"
        \/ /\ Len(run.lines) >= Len(recs)
           /\ \A i \in 1..Len(recs) : run.lines[i] = RecordLine(recs[i])}

reErrorMatch(line) == line.kind = "error"

reListMatch(line) == line.kind = "record"

reExtractMatch(line) == line.kind = "record"

\* line + b"".join(out): the matched line and all the output after it
RestOfOutput(lines, i) == [k \in 1..(Len(lines) - i + 1) |-> lines[i + k - 1].text]

\* the read loop of list7z from line i on
RECURSIVE list7z_loop(_, _, _)
list7z_loop(lines, i, f_list) ==
    IF i > Len(lines) THEN [f_list |-> f_list, err_string |-> <<>>]
    ELSE IF reErrorMatch(lines[i])
    THEN [f_list |-> f_list, err_string |-> RestOfOutput(lines, i)]
    ELSE IF reListMatch(lines[i])
    THEN list7z_loop(lines, i + 1, Append(f_list, lines[i].rec))
    ELSE list7z_loop(lines, i + 1, f_list)

NoMessage == [return_code |-> 0, err_string |-> <<>>]

list7z_returning_parsed(lines, return_code) ==
    LET r == list7z_loop(lines, 1, <<>>)
    IN  [raised |-> FALSE, exception |-> "", message |-> NoMessage, f_list |-> r.f_list]

\* list7z on an archive file that exists, the tool writing `lines` and
\* ending with `return_code`; f_list is meaningful when nothing is raised
list7z(lines, return_code) ==
    LET r == list7z_loop(lines, 1, <<>>)
    IN  IF return_code # 0 \/ r.err_string # <<>>
        THEN [raised |-> TRUE, exception |-> "ArchiveException",
              message |-> [return_code |-> return_code, err_string |-> r.err_string],
              f_list |-> <<>>]
        ELSE [raised |-> FALSE, exception |-> "", message |-> NoMessage,
              f_list |-> r.f_list]

\* the read loop of extract7z from line i on
RECURSIVE extract7z_loop(_, _, _)
extract7z_loop(lines, i, f_list) ==
    IF i > Len(lines) THEN [f_list |-> f_list, errstring |-> <<>>]
    ELSE IF reErrorMatch(lines[i])
    THEN [f_list |-> f_list, errstring |-> RestOfOutput(lines, i)]
    ELSE IF reExtractMatch(lines[i])
    THEN extract7z_loop(lines, i + 1, Append(f_list, lines[i].rec))
    ELSE extract7z_loop(lines, i + 1, f_list)

\* extract7z once the tool has started, the tool writing `lines` and ending
\* with `return_code`; the records stand for the files written to the
\* temporary directory
extract7z_output(lines, return_code) ==
    LET r == extract7z_loop(lines, 1, <<>>)
    IN  IF return_code # 0 \/ r.errstring # <<>>
        THEN [raised |-> TRUE, exception |-> "ArchiveException",
              message |-> [return_code |-> return_code, err_string |-> r.errstring],
              f_list |-> <<>>]
        ELSE [raised |-> FALSE, exception |-> "", message |-> NoMessage,
              f_list |-> r.f_list]

\* MainWindow._on_action_open_done, list7z reading `lines`: the archive is
\* copied to the repository first, and an exception of list7z leaves
\* add_archive and the handler before the archive is registered
OpenArchive(name, lines, return_code) ==
    /\ name \in user_archives
    /\ name \notin Registered
    /\ name \notin repository
    /\ repository' = repository \cup {name}
    /\ \E out \in {list7z(lines, return_code)} :
       \E archives \in {IF out.raised THEN managed_archives
                        ELSE Append(managed_archives,
                                    ArchiveInstance(loosefiles, name, out.f_list))} :
       \E cf \in {IF out.raised THEN conflicts
                  ELSE conflicts_process_files(conflicts, disk, dirs, out.f_list,
                                               archives, name, {})} :
       \E r \in {IF out.raised THEN [archives |-> archives, raised |-> FALSE]
                 ELSE refresh_list_item_state(loosefiles, cf, gamefiles, archives)} :
           /\ conflicts' = cf
           /\ managed_archives' = r.archives
           /\ last' = [op |-> "list7z", names |-> <<name>>, lines |-> lines,
                       return_code |-> return_code, raised |-> out.raised,
                       exception |-> out.exception, message |-> out.message,
                       files |-> out.f_list # <<>>,
                       aborted |-> out.raised \/ r.raised]
    /\ UNCHANGED <<loosefiles, disk, dirs, user_archives, gamefiles, window, batch>>

\* install_archive, extract7z reading `lines`: the copy loop and the removal
\* of the mismatched entries, or False when extract7z raised
install_archive_output(lf, dk, ds, file_context, out) ==
    IF out.raised
    THEN [lf |-> lf, dk |-> dk, ds |-> ds, files |-> FALSE]
    ELSE LET r == copy_loop(out.f_list, 1, 0, lf, dk, ds)
         IN  [lf |-> remove_all(r.lf, file_context.mismatched), dk |-> r.dk, ds |-> r.ds,
              files |-> out.f_list # <<>>]

\* MainWindow._do_install_selected_mod on one archive that install_archive
\* is called on, extract7z reading `lines`
InstallOne(name, lines, return_code) ==
    /\ name \in Registered
    /\ ~(all_matching(Archive(name)) \/ empty(Archive(name)))
    /\ ~has_matched(Archive(name))
    /\ name \notin known_conflictors(Archive(name))
    /\ \E out \in {extract7z_output(lines, return_code)} :
       \E st \in {install_archive_output(loosefiles, disk, dirs,
                      install_info(loosefiles, Archive(name)), out)} :
       \E cf \in {IF st.files
                  THEN generate_conflicts_between_archives(conflicts, st.dk, st.ds,
                                                           managed_archives)
                  ELSE conflicts} :
       \E r \in {IF st.files
                 THEN refresh_list_item_state(st.lf, cf, gamefiles, managed_archives)
                 ELSE [archives |-> managed_archives, raised |-> FALSE]} :
           /\ Entries(st.lf) <= MaxEntries
           /\ loosefiles' = st.lf
           /\ disk' = st.dk
           /\ dirs' = st.ds
           /\ conflicts' = cf
           /\ managed_archives' = r.archives
           /\ last' = [op |-> "extract7z", names |-> <<name>>, lines |-> lines,
                       return_code |-> return_code, raised |-> out.raised,
                       exception |-> out.exception, message |-> out.message,
                       files |-> st.files, aborted |-> r.raised]
           /\ window' = _do_enable_autorefresh(window, TRUE)
    /\ UNCHANGED <<user_archives, gamefiles, batch, repository>>

\* the archives opened, whatever the tool writes on them
OpenStep ==
    \E name \in ArchiveNames : \E run \in ToolRuns(ArchiveContent(name)) :
        OpenArchive(name, run.lines, run.return_code)

\* the archives installed, whatever the tool writes on the records to extract
InstallOneStep ==
    \E name \in Registered :
        \E run \in ToolRuns(extract7z(Archive(name),
                                       install_info(loosefiles, Archive(name)))) :
            InstallOne(name, run.lines, run.return_code)

NextTool ==
    \/ OpenStep
    \/ InstallOneStep
    \/ \E sel \in Selections : UninstallSelected(sel, {})

\* the archives the user opens
ToolArchives == {"B.7z", "C.7z"}

\* MainWindow._init_mods with an empty repository and an empty mod folder
InitTool ==
    /\ disk = EmptyDisk
    /\ dirs = {}
    /\ loosefiles = EmptyMap
    /\ conflicts = EmptyMap
    /\ managed_archives = <<>>
    /\ user_archives = ToolArchives
    /\ gamefiles = EmptyMap
    /\ window = InitWindow(FALSE)
    /\ batch = NoBatch
    /\ repository = {}
    /\ last = [op |-> "none"]

SpecTool == InitTool /\ [][NextTool]_vars

\* the tool ended with a non-zero exit status or wrote an error line
ToolFailed(lines, return_code) ==
    return_code # 0 \/ \E i \in 1..Len(lines) : reErrorMatch(lines[i])

\* the output of the tool from its first error line on
Diagnostic(lines) ==
    IF \E i \in 1..Len(lines) : reErrorMatch(lines[i])
    THEN LET first == CHOOSE i \in 1..Len(lines) :
                          /\ reErrorMatch(lines[i])
                          /\ \A j \in 1..(i - 1) : ~reErrorMatch(lines[j])
         IN  [k \in 1..(Len(lines) - first + 1) |-> lines[first + k - 1].text]
    ELSE <<>>

\* C21: when the tool ends with a non-zero exit status or writes an error
\* line, the listing or the extraction raises ArchiveException with the exit
\* status and the output of the tool from the error line on; the listed
\* archive is not registered with the records read so far, and no extracted
\* file is copied or indexed: the installation hands back False
C21_ToolErrorIsArchiveException ==
    [][(last'.op \in {"list7z", "extract7z"}
            /\ ToolFailed(last'.lines, last'.return_code)) =>
          /\ last'.raised
          /\ last'.exception = "ArchiveException"
          /\ last'.message = [return_code |-> last'.return_code,
                              err_string |-> Diagnostic(last'.lines)]
          /\ ~last'.files
          /\ UNCHANGED <<loosefiles, disk, dirs, managed_archives, conflicts>>]_vars

\* an extraction stopped by an error line after the tool had extracted a file
C21_Witness ==
    /\ last.op = "extract7z"
    /\ last.raised
    /\ Len(last.lines) > 1
    /\ last.lines[1].kind = "record"
    /\ last.return_code = 0

----------------------------------------------------------------------------
(* gamestruct: the regular expressions of the validators, and re.fullmatch *)
(* computed on the characters of the path.                                 *)

\* the nodes of a compiled pattern
Lit(str) == [t |-> "literal", s |-> str]
NotSlashes == [t |-> "[^/]+"]
Cat(rs) == [t |-> "sequence", rs |-> rs]
Alt(rs) == [t |-> "|", rs |-> rs]
Opt(r) == [t |-> "?", r |-> r]
Star(r) == [t |-> "*", r |-> r]
Plus(r) == [t |-> "+", r |-> r]
Bol == [t |-> "^"]
Eol == [t |-> "$"]
LookAhead(r) == [t |-> "(?=", r |-> r]
NotAhead(r) == [t |-> "(?!", r |-> r]
NotBehind(str) == [t |-> "(?<!", s |-> str]

\* the character number k of a string
Char(s, k) == SubSeq(s, k, k)

\* the positions a match of the pattern may end before, when it starts at
\* position i of the string
RECURSIVE Ends(_, _, _), CatEnds(_, _, _, _), StarEnds(_, _, _, _)
Ends(re, s, i) ==
    CASE re.t = "literal" ->
             IF i + Len(re.s) - 1 <= Len(s) /\ SubSeq(s, i, i + Len(re.s) - 1) = re.s
             THEN {i + Len(re.s)} ELSE {}
      [] re.t = "[^/]+" ->
             {j \in (i + 1)..(Len(s) + 1) : \A k \in i..(j - 1) : Char(s, k) # "/"}
      [] re.t = "sequence" -> CatEnds(re.rs, 1, s, {i})
      [] re.t = "|" -> UNION {Ends(re.rs[k], s, i) : k \in 1..Len(re.rs)}
      [] re.t = "?" -> {i} \cup Ends(re.r, s, i)
      [] re.t = "*" -> StarEnds(re.r, s, {i}, {i})
      [] re.t = "+" -> UNION {StarEnds(re.r, s, {j}, {j}) : j \in Ends(re.r, s, i)}
      [] re.t = "^" -> IF i = 1 THEN {i} ELSE {}
      [] re.t = "$" ->
             IF i = Len(s) + 1 \/ (i = Len(s) /\ Char(s, i) = "\n") THEN {i} ELSE {}
      [] re.t = "(?=" -> IF Ends(re.r, s, i) # {} THEN {i} ELSE {}
      [] re.t = "(?!" -> IF Ends(re.r, s, i) = {} THEN {i} ELSE {}
      [] re.t = "(?<!" ->
             IF i - Len(re.s) >= 1 /\ SubSeq(s, i - Len(re.s), i - 1) = re.s
             THEN {} ELSE {i}

CatEnds(rs, k, s, from) ==
    IF k > Len(rs) \/ from = {} THEN from
    ELSE CatEnds(rs, k + 1, s, UNION {Ends(rs[k], s, i) : i \in from})

StarEnds(r, s, frontier, seen) ==
    LET next == UNION {Ends(r, s, i) : i \in frontier} \ seen
    IN  IF next = {} THEN seen ELSE StarEnds(r, s, next, seen \cup next)

\* regex.fullmatch(value)
fullmatch(re, value) == Len(value) + 1 \in Ends(re, value, 1)

\* [^/]+\.xml and [^/]+\.(?:svg|xml), in the order the pattern names them
Xml == Cat(<<NotSlashes, Lit(".xml")>>)
SvgXml == Cat(<<NotSlashes, Lit("."), Alt(<<Lit("svg"), Lit("xml")>>)>>)
XmlSvg == Cat(<<NotSlashes, Lit("."), Alt(<<Lit("xml"), Lit("svg")>>)>>)
Dirs == Star(Cat(<<NotSlashes, Lit("/")>>))

\* the pattern of items/ with any leaf name taken for a file
_itemsr_any_extension ==
    Cat(<<Bol, NotSlashes, Lit("/items/"),
          Alt(<<Cat(<<Alt(<<Lit("clothing"), Lit("weapons"), Lit("tattoos"), Lit("items")>>),
                      Lit("/"), Dirs, Opt(NotSlashes), Eol>>),
                Cat(<<Lit("patterns/"), Opt(NotSlashes), Eol>>),
                Eol>>)>>)

_itemsr ==
    Cat(<<Bol, NotSlashes, Lit("/items/"),
          Alt(<<Cat(<<Alt(<<Lit("clothing"), Lit("weapons"), Lit("tattoos"), Lit("items")>>),
                      Lit("/"), Dirs,
                      Opt(Cat(<<NotSlashes,
                                LookAhead(Alt(<<Lit(".svg"), Lit(".xml")>>)),
                                Lit("."), Alt(<<Lit("svg"), Lit("xml")>>)>>)),
                      Eol>>),
                Cat(<<Lit("patterns/"), Opt(Xml), Eol>>),
                Eol>>)>>)

\* the pattern of race/ with coveringTypes/ holding .svg files as well
racer_covering_svg ==
    Cat(<<Bol, NotSlashes, Lit("/race/"),
          Alt(<<Cat(<<NotSlashes, Lit("/"),
                      Alt(<<Cat(<<Lit("bodyParts/"), Opt(Xml), Eol>>),
                            Cat(<<Alt(<<Lit("coveringTypes/"), Lit("subspecies/")>>),
                                  Opt(SvgXml), Eol>>),
                            Cat(<<Alt(<<Lit("racialBody"), Lit("race")>>), Lit(".xml"), Eol>>),
                            Eol>>)>>),
                Eol>>)>>)

racer ==
    Cat(<<Bol, NotSlashes, Lit("/race/"),
          Alt(<<Cat(<<NotSlashes, Lit("/"),
                      Alt(<<Cat(<<Alt(<<Lit("bodyParts/"), Lit("coveringTypes/")>>),
                                  Opt(Xml), Eol>>),
                            Cat(<<Lit("subspecies/"), Opt(SvgXml), Eol>>),
                            Cat(<<Alt(<<Lit("racialBody"), Lit("race")>>), Lit(".xml"), Eol>>),
                            Eol>>)>>),
                Eol>>)>>)

_outfitsr == Cat(<<Bol, NotSlashes, Lit("/outfits/"), Dirs, Opt(Xml), Eol>>)

coloursr ==
    Cat(<<Bol, NotSlashes, Lit("/colours/"),
          Opt(Cat(<<NotSlashes, LookAhead(Lit(".xml")), Lit(".xml")>>)), Eol>>)

_setbonusesr == Cat(<<Bol, NotSlashes, Lit("/setBonuses/"), Opt(Xml), Eol>>)

_statusr == Cat(<<Bol, NotSlashes, Lit("/statusEffects/"), Opt(XmlSvg), Eol>>)

_combatr == Cat(<<Bol, NotSlashes, Lit("/combatMove/"), Opt(XmlSvg), Eol>>)

_dialogr ==
    Cat(<<Bol, NotSlashes, Lit("/dialogue/"),
          Alt(<<Cat(<<Lit("flags.xml"), Eol>>),
                Cat(<<Dirs, Opt(Xml), Eol>>),
                Eol>>)>>)

_encountersr == Cat(<<Bol, NotSlashes, Lit("/encounters/"), Dirs, Opt(Xml), Eol>>)

_sexr ==
    Cat(<<Bol, NotSlashes, Lit("/sex/"),
          Alt(<<Cat(<<Alt(<<Lit("managers"), Lit("actions")>>), Lit("/"), Opt(Xml), Eol>>),
                Eol>>)>>)

_mapsr ==
    Cat(<<Bol, NotSlashes, Lit("/maps/"),
          Alt(<<Cat(<<Plus(Cat(<<NotSlashes, Lit("/")>>)),
                      Alt(<<Cat(<<NotBehind("placeTypes/"), Lit("map.png"), Eol>>),
                            Cat(<<NotBehind("placeTypes/"), Lit("worldType.xml"), Eol>>),
                            Cat(<<Lit("placeTypes/"), NotAhead(Lit("worldType")),
                                  Opt(XmlSvg), Eol>>),
                            Eol>>)>>),
                Eol>>)>>)

_txtr ==
    Cat(<<Bol, NotSlashes, Lit("/txt/"),
          Alt(<<Cat(<<NotSlashes, Lit("/"), Opt(Xml), Eol>>),
                Cat(<<Xml, Eol>>),
                Eol>>)>>)

\* liliththrone.validators, main_folders and sub_folders as as_validator
\* fills them while the module is imported: one entry per decorated class,
\* in the order of the file
Validator(primary, secondary, regex) ==
    [primary |-> primary, secondary |-> secondary, regex |-> regex]

\* secondary() handing back None
NoSecondary == <<>>

as_validator(registry, fn) ==
    [validators |-> Append(registry.validators, fn),
     main_folders |-> Append(registry.main_folders, fn.primary),
     sub_folders |-> IF fn.secondary # NoSecondary
                     THEN [k \in DOMAIN registry.sub_folders \cup {fn.primary} |->
                              IF k = fn.primary THEN fn.secondary
                              ELSE registry.sub_folders[k]]
                     ELSE registry.sub_folders]

ValidatorClasses ==
    <<Validator("items", <<"clothing", "weapons", "tattoos", "items", "patterns">>, _itemsr),
      Validator("race", <<"bodyparts", "coveringTypes", "subspecies">>, racer),
      Validator("outfits", NoSecondary, _outfitsr),
      Validator("colours", NoSecondary, coloursr),
      Validator("setBonuses", NoSecondary, _setbonusesr),
      Validator("statusEffects", NoSecondary, _statusr),
      Validator("combatMove", NoSecondary, _combatr),
      Validator("dialogue", NoSecondary, _dialogr),
      Validator("encounters", NoSecondary, _encountersr),
      Validator("sex", <<"managers", "actions">>, _sexr),
      Validator("maps", <<"placeTypes">>, _mapsr),
      Validator("txt", NoSecondary, _txtr)>>

RECURSIVE Registry(_)
Registry(n) ==
    IF n = 0 THEN [validators |-> <<>>, main_folders |-> <<>>, sub_folders |-> EmptyMap]
    ELSE as_validator(Registry(n - 1), ValidatorClasses[n])

liliththrone == Registry(Len(ValidatorClasses))

\* Validator(path): attrs runs _MatchReValidator.match on the value, which
\* raises ValueError unless the pattern matches the whole value
RaisesValueError(fn, path) == ~fullmatch(fn.regex, path)

\* GameStructure.validate from the validator number k on
RECURSIVE validate_loop(_, _, _)
validate_loop(_validators, k, path) ==
    IF k > Len(_validators) THEN FALSE
    ELSE IF RaisesValueError(_validators[k], path)
    THEN validate_loop(_validators, k + 1, path)
    ELSE TRUE

\* validate consulting the index of loose files as well
validate_when_indexed(path) ==
    validate_loop(liliththrone.validators, 1, path) /\ loosefiles # EmptyMap

\* validate giving up at the first validator that rejects the path
validate_first_only(path) == ~RaisesValueError(liliththrone.validators[1], path)

\* GameStructure(liliththrone.validators).validate(path)
validate(path) == validate_loop(liliththrone.validators, 1, path)

----------------------------------------------------------------------------
(* The paths handed to the validators: '/'-separated strings, a directory  *)
(* ending with a slash.                                                    *)

\* the second segment of the paths: the primary directory of every
\* validator, and names that are the primary directory of none
Categories ==
    {ValidatorClasses[k].primary : k \in 1..Len(ValidatorClasses)} \cup {"badcat", "Items"}

\* directory names below the category
SubDirs ==
    {"clothing", "weapons", "tattoos", "items", "patterns", "badsub", "bodyParts",
     "bodyparts", "coveringTypes", "subspecies", "managers", "actions", "placeTypes", "x"}

\* directory names further down
DeepDirs == {"x", "placeTypes", "bodyParts", "bodyparts", "coveringTypes", "subspecies"}

\* leaf names
FileNames ==
    {"f.xml", "f.svg", "f.txt", "f.png", "f.SVG", "f.XML", ".xml", "with.dots.svg",
     "race.xml", "racialBody.xml", "flags.xml", "map.png", "worldType.xml",
     "worldTypes.xml", "f"}

\* paths with no namespace, with no category, or with an empty segment
OddPaths ==
    {"", "ns", "ns/", "/items/", "items/", "ns//items/", "ns/items//f.xml",
     "ns/race/x/bodyParts/x/f.xml", "ns/race/x/bodyParts/x/", "ns/race/x/subspecies/x/f.svg"}

\* namespaces other than "ns"
OtherNamespaces == {"innoxia", "a.b"}

PathStrings ==
    LET roots == {"ns/" \o c : c \in Categories}
        d1 == {r \o "/" \o x : r \in roots, x \in SubDirs \cup FileNames}
        d2 == {r \o "/" \o s \o "/" \o y :
                   r \in roots, s \in SubDirs, y \in DeepDirs \cup FileNames}
        d3 == {r \o "/" \o sm \o "/" \o y :
                   r \in roots,
                   sm \in {s \o "/" \o m : s \in {"clothing", "patterns", "badsub"},
                                            m \in {"x", "placeTypes"}}
                           \cup {"x/" \o m : m \in DeepDirs},
                   y \in DeepDirs \cup FileNames}
        bare == roots \cup d1 \cup d2 \cup d3
    IN  bare \cup {p \o "/" : p \in bare} \cup OddPaths
            \cup {n \o "/" \o c \o "/" : n \in OtherNamespaces, c \in Categories}

\* the positions of the slashes of a path, ascending
Slashes(path) == Ascending({k \in 1..Len(path) : Char(path, k) = "/"})

\* the segment number n of a path ("" when the path has fewer segments)
Segment(path, n) ==
    LET sl == Slashes(path)
        first == IF n = 1 THEN 1 ELSE IF n - 1 <= Len(sl) THEN sl[n - 1] + 1 ELSE Len(path) + 2
        end == IF n <= Len(sl) THEN sl[n] - 1 ELSE Len(path)
    IN  IF first > Len(path) + 1 THEN "" ELSE SubSeq(path, first, end)

\* pathlib.PurePath(path).parts: the segments of the path that are not
\* empty, after the root when the path starts with a slash
RECURSIVE parts_from(_, _)
parts_from(path, n) ==
    IF n > Len(Slashes(path)) + 1 THEN <<>>
    ELSE IF Segment(path, n) = "" THEN parts_from(path, n + 1)
    ELSE <<Segment(path, n)>> \o parts_from(path, n + 1)

parts(path) ==
    (IF Len(path) > 0 /\ Char(path, 1) = "/" THEN <<"/">> ELSE <<>>) \o parts_from(path, 1)

\* the path a validator is about to be handed
InitValidate ==
    /\ disk = EmptyDisk
    /\ dirs = {}
    /\ loosefiles = EmptyMap
    /\ conflicts = EmptyMap
    /\ managed_archives = <<>>
    /\ user_archives = {}
    /\ gamefiles = EmptyMap
    /\ window = InitWindow(FALSE)
    /\ batch = NoBatch
    /\ repository = {}
    /\ last \in {[op |-> "none", path |-> path] : path \in PathStrings}

\* GameStructure.validate(path)
Validate ==
    /\ last.op = "none"
    /\ last' = [op |-> "validate", path |-> last.path, result |-> validate(last.path)]
    /\ UNCHANGED <<loosefiles, conflicts, disk, dirs, managed_archives, user_archives,
                   gamefiles, window, batch, repository>>

\* the validator class number k called on the path
Construct(k) ==
    /\ last.op = "none"
    /\ last' = [op |-> "validator", path |-> last.path,
                primary |-> ValidatorClasses[k].primary,
                raised |-> RaisesValueError(ValidatorClasses[k], last.path)]
    /\ UNCHANGED <<loosefiles, conflicts, disk, dirs, managed_archives, user_archives,
                   gamefiles, window, batch, repository>>

\* fileutils._bad_directory_structure called on the path
CheckStructure ==
    /\ last.op = "none"
    /\ last' = [op |-> "structure", path |-> last.path,
                bad |-> _bad_directory_structure(parts(last.path))]
    /\ UNCHANGED <<loosefiles, conflicts, disk, dirs, managed_archives, user_archives,
                   gamefiles, window, batch, repository>>

NextValidate ==
    \/ Validate
    \/ \E k \in 1..Len(ValidatorClasses) : Construct(k)
    \/ CheckStructure

SpecValidate == InitValidate /\ [][NextValidate]_vars

\* the primary directories of the registered validators
Primaries == {liliththrone.main_folders[k] : k \in 1..Len(liliththrone.main_folders)}

\* C22: validate hands back TRUE exactly when one of the registered
\* validators accepts the path, FALSE (and no exception) otherwise, and
\* FALSE for every path whose second segment is the primary directory of no
\* registered validator
C22_ValidateIsAnyValidator ==
    last.op = "validate" =>
        /\ last.result \in BOOLEAN
        /\ last.result <=> \E k \in 1..Len(liliththrone.validators) :
                               ~RaisesValueError(liliththrone.validators[k], last.path)
        /\ Segment(last.path, 2) \notin Primaries => ~last.result

\* a path the first validator rejects and a later one accepts
C22_Witness ==
    /\ last.op = "validate"
    /\ last.result
    /\ RaisesValueError(liliththrone.validators[1], last.path)

\* the namespaces of the paths
Namespaces == {"ns"} \cup OtherNamespaces

\* '<namespace>/<category>/' for the category of the validator
CategoryDirs(fn) == {n \o "/" \o fn.primary \o "/" : n \in Namespaces}

\* the sub-directories the validator declares with secondary(), with no file
\* under them; those of race/ lie under the directory of a race
PermittedSubDirs(fn) ==
    {(IF fn.primary = "race" THEN "ns/race/x/" ELSE "ns/" \o fn.primary \o "/")
         \o fn.secondary[i] \o "/" : i \in 1..Len(fn.secondary)}

BadItemsSubDirectory(path) ==
    /\ Len(Slashes(path)) >= 3
    /\ Segment(path, 1) # ""
    /\ Segment(path, 2) = "items"
    /\ Segment(path, 3) \notin subfolders_of_items

LeafName(path) == Segment(path, Len(Slashes(path)) + 1)

\* pathlib.PurePath(name).suffix: the name from its last dot on, unless the
\* dot starts or ends the name
Extension(name) ==
    LET dots == {k \in 1..Len(name) : Char(name, k) = "."}
    IN  IF dots = {} THEN ""
        ELSE LET dot == CHOOSE k \in dots : \A j \in dots : j <= k
             IN  IF dot = 1 \/ dot = Len(name) THEN "" ELSE SubSeq(name, dot, Len(name))

\* a file below '<namespace>/items/<sub>/', no segment being empty
ItemsFile(path, subs) ==
    /\ Len(Slashes(path)) >= 3
    /\ Len(parts(path)) = Len(Slashes(path)) + 1
    /\ Char(path, 1) # "/"
    /\ Segment(path, 2) = "items"
    /\ Segment(path, 3) \in subs

\* C25: the items validator accepts a file below clothing/, weapons/,
\* tattoos/ or items/, at any depth, exactly when its extension is '.svg' or
\* '.xml' in that very case, and a file directly in patterns/ exactly when its
\* extension is '.xml'; on a file with another extension it raises ValueError
C25_ItemsExtensions ==
    (last.op = "validator" /\ last.primary = "items") =>
        /\ ItemsFile(last.path, {"clothing", "weapons", "tattoos", "items"}) =>
               (~last.raised <=> Extension(LeafName(last.path)) \in {".svg", ".xml"})
        /\ (ItemsFile(last.path, {"patterns"}) /\ Len(Slashes(last.path)) = 3) =>
               (~last.raised <=> Extension(LeafName(last.path)) = ".xml")

\* a file two levels below clothing/ refused for the case of its extension
C25_Witness ==
    /\ last.op = "validator"
    /\ last.primary = "items"
    /\ last.path = "ns/items/clothing/x/f.SVG"
    /\ last.raised

\* a path below '<namespace>/race/', no segment being empty
RacePath(path) ==
    /\ Len(Slashes(path)) >= 2
    /\ Char(path, 1) # "/"
    /\ Segment(path, 2) = "race"
    /\ IF Char(path, Len(path)) = "/"
       THEN Len(parts(path)) = Len(Slashes(path))
       ELSE Len(parts(path)) = Len(Slashes(path)) + 1

\* C26: of the files below '<namespace>/race/' the race validator accepts
\* the .xml files directly in <name>/bodyParts/ or <name>/coveringTypes/, the
\* .xml and .svg files directly in <name>/subspecies/, <name>/racialBody.xml
\* and <name>/race.xml, and no other; of the directories below <name>/ it
\* accepts bodyParts/, coveringTypes/ and subspecies/, and no other
C26_RaceLayout ==
    (last.op = "validator" /\ last.primary = "race" /\ RacePath(last.path)) =>
        LET segs == parts(last.path)
            leaf == segs[Len(segs)]
        IN  IF Char(last.path, Len(last.path)) # "/"
            THEN ~last.raised <=>
                    \/ /\ Len(segs) = 5
                       /\ segs[4] \in {"bodyParts", "coveringTypes"}
                       /\ Extension(leaf) = ".xml"
                    \/ /\ Len(segs) = 5
                       /\ segs[4] = "subspecies"
                       /\ Extension(leaf) \in {".xml", ".svg"}
                    \/ /\ Len(segs) = 4
                       /\ leaf \in {"racialBody.xml", "race.xml"}
            ELSE Len(segs) >= 4 =>
                    (~last.raised <=>
                        /\ Len(segs) = 4
                        /\ leaf \in {"bodyParts", "coveringTypes", "subspecies"})

\* a .svg file in coveringTypes/ refused
C26_Witness ==
    /\ last.op = "validator"
    /\ last.primary = "race"
    /\ last.path = "ns/race/x/coveringTypes/f.svg"
    /\ last.raised

----------------------------------------------------------------------------
(* Calls of validate and of the cached checks of the classifier, while the *)
(* buckets and the registry change.                                        *)

\* the paths the checks are called on
CheckedPaths == {"ns/items/clothing/f.xml", "ns/items/badsub/f.svg"}

\* the entries the index of loose files and a list of conflicts may hold
MaxIndexed == 1

\* the functions called
CheckFunctions == {"validate", "_bad_directory_structure", "_bad_suffix"}

\* the buckets and the registry are as the program starts with
Untouched == loosefiles = EmptyMap /\ conflicts = EmptyMap /\ managed_archives = <<>>

\* functools.lru_cache(maxsize=None): the value stored for the argument, or
\* the value computed now
lru_cache(cache, key, value) == IF key \in DOMAIN cache THEN cache[key].result ELSE value

\* what a call hands back; last.calls holds, for every function and path
\* called so far, the result of the first call, which is what lru_cache
\* stores for the two checks of the classifier
call(fn, path) ==
    CASE fn = "validate" -> validate(path)
      [] fn = "_bad_directory_structure" ->
             lru_cache(last.calls, <<fn, path>>, _bad_directory_structure(parts(path)))
      [] fn = "_bad_suffix" ->
             lru_cache(last.calls, <<fn, path>>, _bad_suffix(Extension(LeafName(path))))

InitPure ==
    /\ disk = EmptyDisk
    /\ dirs = {}
    /\ loosefiles = EmptyMap
    /\ conflicts = EmptyMap
    /\ managed_archives = <<>>
    /\ user_archives = {}
    /\ gamefiles \in {EmptyMap, 1 :> FileMetadata(1, P1, "F")}
    /\ window = InitWindow(FALSE)
    /\ batch = NoBatch
    /\ repository = {}
    /\ last = [op |-> "none", calls |-> EmptyMap]

\* GameStructure.validate, _bad_directory_structure or _bad_suffix called
Call(fn, path) ==
    /\ \E result \in {call(fn, path)} :
           last' = [op |-> fn, path |-> path, result |-> result,
                    repeated |-> <<fn, path>> \in DOMAIN last.calls,
                    calls |-> IF <<fn, path>> \in DOMAIN last.calls THEN last.calls
                              ELSE last.calls @@
                                   (<<fn, path>> :> [result |-> result, first |-> Untouched])]
    /\ UNCHANGED <<loosefiles, conflicts, disk, dirs, managed_archives, user_archives,
                   gamefiles, window, batch, repository>>

\* bucket.as_loosefile
PutLoose(crc, path) ==
    /\ Entries(loosefiles) < MaxIndexed
    /\ loosefiles' = as_loosefile(loosefiles, disk, dirs, crc, path)
    /\ UNCHANGED <<conflicts, disk, dirs, managed_archives, user_archives, gamefiles,
                   window, batch, repository, last>>

\* bucket.remove_item_from_loosefiles
DropLoose(crc, path) ==
    /\ loosefiles' = remove_item_from_loosefiles(loosefiles, FileMetadata(crc, path, "F"))
    /\ UNCHANGED <<conflicts, disk, dirs, managed_archives, user_archives, gamefiles,
                   window, batch, repository, last>>

\* bucket.as_conflict
PutConflict(path, name) ==
    /\ path \in DOMAIN conflicts => Len(conflicts[path]) < MaxIndexed
    /\ conflicts' = as_conflict(conflicts, path, <<name>>)
    /\ UNCHANGED <<loosefiles, disk, dirs, managed_archives, user_archives, gamefiles,
                   window, batch, repository, last>>

\* ArchivesCollection.__setitem__
Register(name) ==
    /\ name \notin Registered
    /\ managed_archives' =
           Append(managed_archives, ArchiveInstance(loosefiles, name, ArchiveContent(name)))
    /\ UNCHANGED <<loosefiles, conflicts, disk, dirs, user_archives, gamefiles,
                   window, batch, repository, last>>

NextPure ==
    \/ \E fn \in CheckFunctions, path \in CheckedPaths : Call(fn, path)
    \/ PutLoose(1, P1)
    \/ DropLoose(1, P1)
    \/ PutConflict(P1, "D.7z")
    \/ Register("D.7z")

SpecPure == InitPure /\ [][NextPure]_vars

----------------------------------------------------------------------------
(* bucket.as_conflict called directly, between runs of the detection.      *)

\* what as_conflict is handed: one name or a list of names
ContributorLists ==
    {<<name>> : name \in {"B.7z", "C.7z"}} \cup {<<"B.7z", "C.7z">>}

\* bucket.as_conflict(key, value)
AsConflict(key, value) ==
    /\ key \in DOMAIN conflicts => Len(conflicts[key]) + Len(value) <= MaxList
    /\ conflicts' = as_conflict(conflicts, key, value)
    /\ last' = [op |-> "as_conflict", names |-> value, key |-> key, aborted |-> FALSE]
    /\ UNCHANGED <<loosefiles, disk, dirs, managed_archives, user_archives, gamefiles,
                   window, batch, repository>>

NextAsConflict ==
    \/ \E name \in ArchiveNames : AddArchive(name)
    \/ \E name \in ArchiveNames : RemoveArchive(name)
    \/ \E value \in ContributorLists : AsConflict(P1, value)

SpecAsConflict == InitConflicts /\ [][NextAsConflict]_vars

\* C28: whatever calls of as_conflict and runs of the detection came before,
\* no archive name appears more than once in the list of a path in conflict
C28_NoContributorTwice ==
    \A path \in DOMAIN conflicts :
        \A i, j \in 1..Len(conflicts[path]) :
            i # j => conflicts[path][i] # conflicts[path][j]

----------------------------------------------------------------------------
(* bucket.py: comparison of two file records                               *)

\* FileMetadata.origin: "Loosefile", "GameFile" or the name of an archive
Origins == {"Loosefile", "GameFile", "A.7z", "B.7z"}

\* a FileMetadata together with the isfrom it was built with
FileMetadataFrom(crc, path, attributes, isfrom) ==
    [crc |-> crc, path |-> path, attributes |-> attributes, origin |-> isfrom]

ComparedRecords ==
    {FileMetadataFrom(crc, path, "F", isfrom) :
        crc \in Hashes, path \in {P1, P2}, isfrom \in Origins}

\* FileMetadata.__eq__
__eq__(self, other) == other.path = self.path /\ other.crc = self.crc

\* FileMetadata.__ne__
__ne__(self, other) == other.path # self.path /\ other.crc # self.crc

InitCompare ==
    /\ disk = EmptyDisk
    /\ dirs = {}
    /\ loosefiles = EmptyMap
    /\ conflicts = EmptyMap
    /\ managed_archives = <<>>
    /\ user_archives = {}
    /\ gamefiles = EmptyMap
    /\ window = InitWindow(FALSE)
    /\ batch = NoBatch
    /\ repository = {}
    /\ last \in {[op |-> "none", a |-> a, b |-> b] : a, b \in ComparedRecords}

\* a == b
Equals ==
    /\ last.op = "none"
    /\ last' = [op |-> "eq", a |-> last.a, b |-> last.b, result |-> __eq__(last.a, last.b)]
    /\ UNCHANGED <<loosefiles, conflicts, disk, dirs, managed_archives, user_archives,
                   gamefiles, window, batch, repository>>

\* a != b
NotEquals ==
    /\ last.op = "none"
    /\ last' = [op |-> "ne", a |-> last.a, b |-> last.b, result |-> __ne__(last.a, last.b)]
    /\ UNCHANGED <<loosefiles, conflicts, disk, dirs, managed_archives, user_archives,
                   gamefiles, window, batch, repository>>

NextCompare == Equals \/ NotEquals

SpecCompare == InitCompare /\ [][NextCompare]_vars

\* C29: for any two file records a and b, a == b holds exactly when they have
\* the same path and the same content hash, whatever their origins, and
\* a != b is the exact negation of a == b.
C29_EqualityAndItsNegation ==
    /\ last.op = "eq" =>
          (last.result <=> (last.a.path = last.b.path /\ last.a.crc = last.b.crc))
    /\ last.op = "ne" => (last.result <=> ~__eq__(last.a, last.b))

----------------------------------------------------------------------------
(* filehandler.py: install_info and what install_archive hands to 7z       *)

\* ArchiveInstance.install_info() of a registered archive, then the exclude
\* list install_archive builds from it and the extraction with that list
InstallInfo(name) ==
    /\ \E a \in 1..Len(managed_archives) : managed_archives[a].archive_name = name
    /\ \E ai \in {Archive(name)} :
       \E file_context \in {install_info(loosefiles, ai)} :
           last' = [op |-> "install_info", names |-> <<name>>, archive |-> ai,
                    file_context |-> file_context,
                    files |-> extract7z(ai, file_context), aborted |-> FALSE]
    /\ UNCHANGED <<loosefiles, conflicts, disk, dirs, managed_archives, user_archives,
                   gamefiles, window, batch, repository>>

NextInfo ==
    \/ Next
    \/ \E name \in ArchiveNames : InstallInfo(name)

SpecInfo == Init /\ [][NextInfo]_vars

\* the elements of a sequence
Elements(seq) == {seq[i] : i \in 1..Len(seq)}

\* the records of the archive whose stored status is one of the statuses
RecordsOf(ai, statuses) ==
    {ai.file_list[i] : i \in {k \in 1..Len(ai.meta) : ai.meta[k] \in statuses}}

\* C30: install_info() puts every Matched and every Ignored record of the
\* archive in the exclusion lists and never a Missing or Mismatched one; its
\* mismatched list names, for every Mismatched record, exactly the loose
\* entries stored at that record's path; the files extracted with the
\* exclusions are exactly the Missing and the Mismatched records.
C30_InstallInfoPartition ==
    last.op = "install_info" =>
        LET ai == last.archive
            info == last.file_context
            excluded == Elements(info.matched) \cup Elements(info.ignored)
        IN  /\ RecordsOf(ai, {MATCHED}) = Elements(info.matched)
            /\ RecordsOf(ai, {IGNORED}) = Elements(info.ignored)
            /\ RecordsOf(ai, {MISSING, MISMATCHED}) \cap excluded = {}
            /\ Elements(info.mismatched) =
                   {f \in Elements(LooseEntries(loosefiles)) :
                        \E r \in RecordsOf(ai, {MISMATCHED}) : r.path = f.path}
            /\ Elements(last.files) = RecordsOf(ai, {MISSING, MISMATCHED})
            /\ Len(last.files) = Cardinality(RecordsOf(ai, {MISSING, MISMATCHED}))

\* install_info() on an archive holding an Ignored record and a Mismatched
\* one whose path holds a loose entry
C30_Witness ==
    /\ last.op = "install_info"
    /\ last.file_context.ignored # <<>>
    /\ last.file_context.mismatched # <<>>
    /\ last.files # <<>>

----------------------------------------------------------------------------
(* filehandler.py: ArchivesCollection with its three dictionaries.  In the *)
(* specification of this section managed_archives is the record            *)
(* [_data, _stat, _hashsums]: _data the (key, value) pairs in insertion    *)
(* order, _stat and _hashsums functions of the key.                        *)

\* the archive files there are: A2.7z is a copy of A.7z under another name
RegistryEntries == {"A.7z", "A2.7z", "D.7z"}

\* the archive whose bytes the file holds
FileOf(name) == IF name = "A2.7z" THEN "A.7z" ELSE name

\* sha256hash: a function of the bytes of the file
sha256hash(name) == "sha256-" \o FileOf(name)

\* path.stat()
stat_result(name) == "stat-" \o name

\* ArchivesCollection.__init__
EmptyCollection == [_data |-> <<>>, _stat |-> EmptyMap, _hashsums |-> EmptyMap]

\* the keys of self._data
Keys(reg) == {reg._data[i].key : i \in 1..Len(reg._data)}

\* map without key
Del(map, key) == [k \in DOMAIN map \ {key} |-> map[k]]

\* ArchivesCollection.find; None is the empty string
find_in_collection(reg, archive_name, hashsum) ==
    \/ archive_name # "" /\ archive_name \in Keys(reg)
    \/ hashsum # "" /\ \E key \in DOMAIN reg._hashsums : reg._hashsums[key] = hashsum

\* ArchivesCollection.__setitem__
__setitem__(reg, key, value) ==
    IF key \notin Keys(reg)
    THEN [reg EXCEPT !._data = Append(@, [key |-> key, value |-> value])]
    ELSE [reg EXCEPT !._data = [i \in 1..Len(@) |->
                                    IF @[i].key = key /\ @[i].value # value
                                    THEN [key |-> key, value |-> value]
                                    ELSE @[i]]]

\* ArchivesCollection.add_archive of a file that exists
collection_add_archive(reg, lf, name, hashsum) ==
    LET value == ArchiveInstance(lf, name, ArchiveContent(FileOf(name)))
        set == __setitem__(reg, name, value)
    IN  [set EXCEPT !._stat = Put(@, name, stat_result(name)),
                    !._hashsums = Put(@, name, IF hashsum = "" THEN sha256hash(name)
                                                ELSE hashsum)]

\* ArchivesCollection.rename_archive
rename_archive(reg, src, dest) ==
    IF src \in Keys(reg) /\ dest \notin Keys(reg)
    THEN LET i == CHOOSE i \in 1..Len(reg._data) : reg._data[i].key = src
         IN  [reg EXCEPT !._data = Append(SelectSeq(@, LAMBDA e : e.key # src),
                                          [key |-> dest, value |-> @[i].value])]
    ELSE reg

\* ArchivesCollection.__delitem__: the three del statements in order, each
\* raising KeyError when the key is missing
__delitem__(reg, key) ==
    IF key \notin Keys(reg) THEN [reg |-> reg, raised |-> TRUE]
    ELSE LET d1 == [reg EXCEPT !._data = SelectSeq(@, LAMBDA e : e.key # key)]
         IN  IF key \notin DOMAIN reg._stat THEN [reg |-> d1, raised |-> TRUE]
             ELSE LET d2 == [d1 EXCEPT !._stat = Del(@, key)]
                  IN  IF key \notin DOMAIN reg._hashsums
                      THEN [reg |-> d2, raised |-> TRUE]
                      ELSE [reg |-> [d2 EXCEPT !._hashsums = Del(@, key)],
                            raised |-> FALSE]

\* refresh: `if not self.find(archive_name=entry.name)`
refresh_find(reg, entry) == find_in_collection(reg, entry, "")

\* the first loop of ArchivesCollection.refresh over the entries in glob
\* order, from the entry number i on
RECURSIVE collection_scan(_, _, _, _)
collection_scan(reg, lf, order, i) ==
    IF i > Len(order) THEN reg
    ELSE IF ~refresh_find(reg, order[i])
    THEN collection_scan(collection_add_archive(reg, lf, order[i], ""), lf, order, i + 1)
    ELSE collection_scan(reg, lf, order, i + 1)

\* the last loop of refresh: `for k in to_delete: del self[k]`
RECURSIVE delete_ghosts(_, _, _)
delete_ghosts(reg, to_delete, k) ==
    IF k > Len(to_delete) THEN [reg |-> reg, raised |-> FALSE]
    ELSE CHOOSE out \in {IF d.raised THEN d ELSE delete_ghosts(d.reg, to_delete, k + 1) :
                             d \in {__delitem__(reg, to_delete[k])}} : TRUE

\* ArchivesCollection.refresh consumed to its end
collection_refresh(reg, lf, repo, order) ==
    LET scanned == collection_scan(reg, lf, order, 1)
        ghosts == SelectSeq(scanned._data, LAMBDA e : e.key \notin Found(repo))
    IN  delete_ghosts(scanned, [g \in 1..Len(ghosts) |-> ghosts[g].key], 1)

\* ArchivesCollection.build_archives_list over the entries in glob order
RECURSIVE build_archives_list(_, _, _, _)
build_archives_list(reg, lf, order, i) ==
    IF i > Len(order) THEN reg
    ELSE build_archives_list(collection_add_archive(reg, lf, order[i], ""), lf, order, i + 1)

\* the orders in which repo.glob("*.*") may list the archives of the directory
AllOrders(repo) ==
    {order \in [1..Cardinality(Found(repo)) -> Found(repo)] :
        \A i, j \in 1..Cardinality(Found(repo)) : i # j => order[i] # order[j]}

InitRegistry ==
    /\ disk = EmptyDisk
    /\ dirs = {}
    /\ loosefiles = EmptyMap
    /\ conflicts = EmptyMap
    /\ managed_archives = EmptyCollection
    /\ user_archives = RegistryEntries
    /\ gamefiles = EmptyMap
    /\ window = InitWindow(FALSE)
    /\ batch = NoBatch
    /\ repository \in SUBSET {"A.7z", "D.7z"}
    /\ last = [op |-> "none"]

\* MainWindow._init_mods: build_archives_list on the empty collection
BuildArchivesList(order) ==
    /\ last.op = "none"
    /\ managed_archives' = build_archives_list(managed_archives, loosefiles, order, 1)
    /\ last' = [op |-> "build", names |-> order, raised |-> FALSE]
    /\ UNCHANGED <<loosefiles, conflicts, disk, dirs, user_archives, gamefiles, window,
                   batch, repository>>

\* MainWindow._on_action_open_done(filename): a file the user picked outside
\* the repository
OpenDone(name) ==
    /\ name \in user_archives
    /\ \E known \in {find_in_collection(managed_archives, "", sha256hash(name))} :
       \E copied \in {~known /\ name \notin repository} :
          /\ repository' = IF copied THEN repository \cup {name} ELSE repository
          /\ managed_archives' =
                 IF copied
                 THEN collection_add_archive(managed_archives, loosefiles, name,
                                             sha256hash(name))
                 ELSE managed_archives
          /\ last' = [op |-> "open", names |-> <<name>>, ok |-> copied, raised |-> FALSE]
    /\ UNCHANGED <<loosefiles, conflicts, disk, dirs, user_archives, gamefiles, window,
                   batch>>

\* MainWindow._on_fs_modified: the watcher saw a new file of the repository
FsModified(name) ==
    /\ name \in repository
    /\ \E known \in {find_in_collection(managed_archives, "", sha256hash(name))} :
          /\ managed_archives' =
                 IF ~known
                 THEN collection_add_archive(managed_archives, loosefiles, name,
                                             sha256hash(name))
                 ELSE managed_archives
          /\ last' = [op |-> "modified", names |-> <<name>>, ok |-> ~known,
                      raised |-> FALSE]
    /\ UNCHANGED <<loosefiles, conflicts, disk, dirs, user_archives, gamefiles, window,
                   batch, repository>>

\* a file of the repository is renamed and MainWindow._on_fs_moved runs
FsMoved(src, dest) ==
    /\ src \in repository
    /\ dest \notin repository
    /\ FileOf(src) = FileOf(dest)
    /\ repository' = (repository \ {src}) \cup {dest}
    /\ managed_archives' = rename_archive(managed_archives, src, dest)
    /\ last' = [op |-> "moved", names |-> <<src, dest>>, raised |-> FALSE]
    /\ UNCHANGED <<loosefiles, conflicts, disk, dirs, user_archives, gamefiles, window,
                   batch>>

\* the loop of on_window_activate over managed_archives.refresh()
CollectionRefresh(order) ==
    /\ \E r \in {collection_refresh(managed_archives, loosefiles, repository, order)} :
          /\ managed_archives' = r.reg
          /\ last' = [op |-> "refresh", names |-> order, raised |-> r.raised]
    /\ UNCHANGED <<loosefiles, conflicts, disk, dirs, user_archives, gamefiles, window,
                   batch, repository>>

\* MainWindow._do_delete_selected_file on one row: delete_archive, then
\* _remove_row with `del self.managed_archives[filename]`
DeleteSelected(key) ==
    /\ key \in Keys(managed_archives)
    /\ repository' = repository \ {key}
    /\ \E r \in {__delitem__(managed_archives, key)} :
          /\ managed_archives' = r.reg
          /\ last' = [op |-> "delete", names |-> <<key>>, raised |-> r.raised]
    /\ UNCHANGED <<loosefiles, conflicts, disk, dirs, user_archives, gamefiles, window,
                   batch>>

NextRegistry ==
    \/ \E order \in AllOrders(repository) : BuildArchivesList(order)
    \/ \E name \in RegistryEntries : OpenDone(name)
    \/ \E name \in RegistryEntries : FsModified(name)
    \/ \E src, dest \in RegistryEntries : FsMoved(src, dest)
    \/ \E entry \in RegistryEntries : RepoEntryCreated(entry)
    \/ \E entry \in RegistryEntries : RepoEntryDeleted(entry)
    \/ \E order \in AllOrders(repository) : CollectionRefresh(order)
    \/ \E key \in RegistryEntries : DeleteSelected(key)

SpecRegistry == InitRegistry /\ [][NextRegistry]_vars

\* C31: after any sequence of archive additions (user add, watchdog add,
\* refresh, initial build) no two registered archives have the same sha256
\* hashsum: a file whose content hash equals that of a registered archive
\* under another filename is not registered.
C31_NoTwoArchivesOfOneHash ==
    \A k1, k2 \in DOMAIN managed_archives._hashsums :
        k1 # k2 => managed_archives._hashsums[k1] # managed_archives._hashsums[k2]

\* C37: the three maps of the registry have the same key set, so that stat,
\* hashsums and deletion succeed for every registered name, also one produced
\* by rename_archive.
C37_ThreeMapsSameKeys ==
    /\ Keys(managed_archives) = DOMAIN managed_archives._stat
    /\ Keys(managed_archives) = DOMAIN managed_archives._hashsums
    /\ (last.op = "delete" => ~last.raised)

----------------------------------------------------------------------------
(* manager.py: on_window_activate with the events of                       *)
(* ArchivesCollection.refresh.  The window record carries one more field,  *)
(* rows: the registered archives whose ArchiveInstance a row of the list   *)
(* widget refers to.  The auto-refresh checkbox is checked.                *)

ActivateArchives == {"A.7z", "D.7z"}

\* `etype == ArchiveEvents.FILE_ADDED`: etype is the int the generator yields
\* (FileAdded, FileRemoved) and the right-hand side a member of an enum.Enum,
\* which compares equal to itself only
int_eq_enum(etype, member) == FALSE

\* the loop of on_window_activate over the events, from the event number i on:
\* addItem(ListRowItem(...)) on FILE_ADDED, _remove_row(..., preserve_managed=
\* True) on FILE_REMOVED
RECURSIVE activate_events_loop(_, _, _, _, _)
activate_events_loop(events, i, rows, cf, archives) ==
    IF i > Len(events) THEN [rows |-> rows, cf |-> cf]
    ELSE LET etype == events[i][1]
             archive_name == events[i][2]
             added == IF int_eq_enum(etype, "FILE_ADDED")
                      THEN rows \cup {archive_name} ELSE rows
         IN  IF int_eq_enum(etype, "FILE_REMOVED")
             THEN activate_events_loop(events, i + 1, added \ {archive_name},
                      generate_conflicts_between_archives(cf, disk, dirs, archives),
                      archives)
             ELSE activate_events_loop(events, i + 1, added, cf, archives)

\* MainWindow.refresh_list_item_state: the rows of the list widget, which
\* are the archives of rows
RECURSIVE refresh_rows_loop(_, _, _, _, _, _)
refresh_rows_loop(lf, cf, gf, archives, rows, idx) ==
    IF idx > Len(archives) THEN [archives |-> archives, raised |-> FALSE]
    ELSE IF archives[idx].archive_name \notin rows
    THEN refresh_rows_loop(lf, cf, gf, archives, rows, idx + 1)
    ELSE LET r == reset_conflicts(cf, gf, reset_status(lf, archives[idx]))
             refreshed == [archives EXCEPT ![idx] = r.ai]
         IN  IF r.raised THEN [archives |-> refreshed, raised |-> TRUE]
             ELSE refresh_rows_loop(lf, cf, gf, refreshed, rows, idx + 1)

\* MainWindow.on_window_activate entered with the window fields w, the glob
\* of refresh listing the new archives in the given order
on_window_activate_refresh(w, order) ==
    LET dirty == w.is_mod_repo_dirty
        w1 == IF ~w.wd_archives /\ w.autorefresh THEN [w EXCEPT !.wd_archives = TRUE] ELSE w
        w2 == IF dirty /\ w.autorefresh THEN [w1 EXCEPT !.wd_modules = TRUE] ELSE w1
        lf == IF dirty THEN build_loose_files_crc32(disk, dirs) ELSE loosefiles
        rf == refresh(lf, managed_archives, repository, order)
        registered == {rf.archives[a].archive_name : a \in 1..Len(rf.archives)}
        lp == activate_events_loop(rf.events, 1, w.rows, conflicts,
                                   refresh_keeping_ghosts(lf, managed_archives, repository,
                                                          order).archives)
        detect == rf.events # <<>> \/ dirty
        cf == IF detect
              THEN generate_conflicts_between_archives(lp.cf, disk, dirs, rf.archives)
              ELSE lp.cf
        d == IF detect THEN initiate_conflicts_detection(cf, gamefiles, rf.archives)
             ELSE [archives |-> rf.archives, raised |-> FALSE]
        r == IF detect /\ ~d.raised
             THEN refresh_rows_loop(lf, cf, gamefiles, d.archives, lp.rows, 1)
             ELSE d
    IN  [lf |-> lf, cf |-> cf, archives |-> r.archives, raised |-> r.raised,
         detected |-> detect, events |-> rf.events,
         w |-> [(IF detect /\ ~r.raised THEN [w2 EXCEPT !.is_mod_repo_dirty = FALSE]
                 ELSE w2) EXCEPT !.rows = lp.rows \cap registered]]

InitActivate ==
    /\ disk = EmptyDisk
    /\ dirs = {}
    /\ loosefiles = EmptyMap
    /\ conflicts = EmptyMap
    /\ managed_archives = <<>>
    /\ user_archives = {}
    /\ gamefiles = EmptyMap
    /\ window = Put(InitWindow(TRUE), "rows", {})
    /\ batch = NoBatch
    /\ repository = {}
    /\ last = [op |-> "none"]

\* MainWindow._on_fs_modified with _on_action_open_done: the archives watcher
\* saw a new file of the repository; the archive gets a row
FsModifiedAddsRow(name) ==
    /\ window.wd_archives
    /\ name \in repository
    /\ name \notin Registered
    /\ LET ai == ArchiveInstance(loosefiles, name, ArchiveContent(name))
           archives == Append(managed_archives, ai)
           cf == conflicts_process_files(conflicts, disk, dirs, ai.file_list,
                                         archives, name, {})
           rows == window.rows \cup {name}
           r == refresh_rows_loop(loosefiles, cf, gamefiles, archives, rows, 1)
       IN  /\ conflicts' = cf
           /\ managed_archives' = r.archives
           /\ window' = [window EXCEPT !.rows = rows]
           /\ last' = [op |-> "add", names |-> <<name>>, aborted |-> r.raised]
    /\ UNCHANGED <<loosefiles, disk, dirs, user_archives, gamefiles, batch, repository>>

\* a file of the mod folder is written from outside the program;
\* MainWindow._mod_repo_watch_cb runs when the modules watcher is scheduled
ModFileWritten(crc, path) ==
    /\ disk[path] # crc
    /\ disk' = [disk EXCEPT ![path] = crc]
    /\ dirs' = makedirs(dirs, path)
    /\ window' = IF window.wd_modules
                 THEN [window EXCEPT !.is_mod_repo_dirty = TRUE, !.wd_modules = FALSE]
                 ELSE window
    /\ last' = [op |-> "written", crc |-> crc, path |-> path]
    /\ UNCHANGED <<loosefiles, conflicts, managed_archives, user_archives, gamefiles,
                   batch, repository>>

\* the application comes back to the foreground: on_window_activate
ActivateWithRefresh(order) ==
    /\ ~window.previous_state
    /\ \E r \in {on_window_activate_refresh(window, order)} :
           /\ loosefiles' = r.lf
           /\ conflicts' = r.cf
           /\ managed_archives' = r.archives
           /\ window' = [r.w EXCEPT !.previous_state = ~r.raised]
           /\ last' = [op |-> "activate", aborted |-> r.raised, events |-> r.events,
                       detected |-> r.detected]
    /\ UNCHANGED <<disk, dirs, user_archives, gamefiles, batch, repository>>

NextActivate ==
    \/ \E entry \in ActivateArchives : RepoEntryCreated(entry)
    \/ \E entry \in ActivateArchives : RepoEntryDeleted(entry)
    \/ \E name \in ActivateArchives : FsModifiedAddsRow(name)
    \/ \E crc \in Hashes, path \in {P1, P2} : ModFileWritten(crc, path)
    \/ WindowDeactivate
    \/ \E order \in GlobOrders(managed_archives, repository) : ActivateWithRefresh(order)

SpecActivate == InitActivate /\ [][NextActivate]_vars

\* the stored statuses and conflicts of the archive are those a
\* reset_status and a reset_conflicts give now
Recomputed(lf, cf, gf, ai) ==
    /\ ai.meta = reset_status(lf, ai).meta
    /\ ai = reset_conflicts(cf, gf, ai).ai

\* C32: on window activation, if the registry refresh yields an event or the
\* mod folder is flagged dirty, a full conflict detection runs, the status and
\* the conflicts of every archive are recomputed and the flag is false
\* afterwards, loose_files being rebuilt by a full scan first when the flag
\* was set; otherwise no conflict detection runs.
C32_ActivationDetects ==
    [][last'.op = "activate" =>
         IF last'.events # <<>> \/ window.is_mod_repo_dirty
         THEN /\ last'.detected
              /\ ~window'.is_mod_repo_dirty
              /\ window.is_mod_repo_dirty =>
                     loosefiles' = build_loose_files_crc32(disk, dirs)
              /\ \A a \in 1..Len(managed_archives') :
                     Recomputed(loosefiles', conflicts', gamefiles, managed_archives'[a])
         ELSE /\ ~last'.detected
              /\ conflicts' = conflicts
              /\ managed_archives' = managed_archives]_vars

----------------------------------------------------------------------------
----------------------------------------------------------------------------
(* The repository of three archives under install batches, uninstall       *)
(* batches and rescans.                                                    *)

NextInstalls ==
    \/ NextSelect
    \/ Rescan

SpecInstalls == InitConflicts /\ [][NextInstalls]_vars

\* C34: in every state reachable by install batches, uninstalls and rescans,
\* loose_files holds no (hash, path) pair more than once, also after one
\* batch installed two archives that declare the same path with the same hash.
C34_NoPairTwice ==
    \A crc \in DOMAIN loosefiles :
        \A i, j \in 1..Len(loosefiles[crc]) :
            i # j => loosefiles[crc][i].path # loosefiles[crc][j].path

----------------------------------------------------------------------------
(* install_archive, reset_status and uninstall_files one after the other   *)
(* on one archive, from any index in which the archive is not installed.   *)

MaxStart == 2

\* the index after as_loosefile on each entry in turn
RECURSIVE IndexOf(_)
IndexOf(entries) ==
    IF entries = <<>> THEN EmptyMap
    ELSE as_loosefile(IndexOf(SubSeq(entries, 1, Len(entries) - 1)), EmptyDisk, {},
                      entries[Len(entries)][1], entries[Len(entries)][2])

\* loose_files at the start: up to MaxStart entries over three paths
StartIndexes ==
    {IndexOf(entries) :
        entries \in UNION {[1..n -> Hashes \X {P1, P2, PBadExt}] : n \in 0..MaxStart}}

\* the mod folder holding the files of the index
DiskOf(lf) ==
    [path \in FilePaths |->
        IF HasPath(lf, path)
        THEN CHOOSE crc \in DOMAIN lf : HasEntry(lf, crc, path)
        ELSE NoFile]

RoundTripArchives == {"A.7z", "B.7z", "C.7z", "D.7z"}

\* every record of the archive is Missing or Ignored
NotInstalled(ai) == \A i \in 1..Len(ai.meta) : ai.meta[i] \in {MISSING, IGNORED}

InitRoundTrip ==
    /\ loosefiles \in StartIndexes
    /\ disk \in {EmptyDisk, DiskOf(loosefiles)}
    /\ dirs = {d \in DirPaths : \E path \in FilePaths : disk[path] # NoFile /\ Inside(path, d)}
    /\ conflicts = EmptyMap
    /\ managed_archives \in
           {<<ArchiveInstance(loosefiles, name, ArchiveContent(name))>> :
                name \in RoundTripArchives}
    /\ NotInstalled(managed_archives[1])
    /\ user_archives = {}
    /\ gamefiles = EmptyMap
    /\ window = InitWindow(FALSE)
    /\ batch = NoBatch
    /\ repository = {}
    /\ last = [op |-> "none"]

\* install_archive(X, X.install_info()) that hands back extracted files,
\* then X.reset_status()
InstallThenRefresh ==
    /\ last.op = "none"
    /\ \E ai \in {managed_archives[1]} :
       \E r \in {install_archive(loosefiles, disk, dirs, ai,
                                 install_info(loosefiles, ai), "ok", 0)} :
          /\ r.files
          /\ loosefiles' = r.lf
          /\ disk' = r.dk
          /\ dirs' = r.ds
          /\ managed_archives' = <<reset_status(r.lf, ai)>>
          /\ last' = [op |-> "installed", start |-> loosefiles]
    /\ UNCHANGED <<conflicts, user_archives, gamefiles, window, batch, repository>>

\* uninstall_files(X.uninstall_info()), then X.reset_status()
UninstallThenRefresh ==
    /\ last.op = "installed"
    /\ \E ai \in {managed_archives[1]} :
       \E r \in {uninstall_files(loosefiles, disk, dirs,
                                 uninstall_info(disk, dirs, ai), {})} :
          /\ loosefiles' = r.lf
          /\ disk' = r.dk
          /\ dirs' = r.ds
          /\ managed_archives' = <<reset_status(r.lf, ai)>>
          /\ last' = [op |-> "uninstalled", start |-> last.start, ok |-> r.success]
    /\ UNCHANGED <<conflicts, user_archives, gamefiles, window, batch, repository>>

NextRoundTrip == InstallThenRefresh \/ UninstallThenRefresh

SpecRoundTrip == InitRoundTrip /\ [][NextRoundTrip]_vars

\* C35: from any loose_files in which all non-ignored files of archive X are
\* Missing, a successful install of X, a status refresh and a successful
\* uninstall of X's uninstall_info() leave loose_files equal to its starting
\* content, and after a further refresh no record of X is Matched.
C35_InstallUninstallRoundTrip ==
    (last.op = "uninstalled" /\ last.ok) =>
        /\ loosefiles = last.start
        /\ ~has_matched(managed_archives[1])

\* the round trip of an archive of two files, one of them sharing its hash
\* with an entry the index held at the start
C35_Witness ==
    /\ last.op = "uninstalled"
    /\ last.ok
    /\ managed_archives[1].archive_name = "C.7z"
    /\ 1 \in DOMAIN last.start

----------------------------------------------------------------------------
(* The conflict map an archive keeps for itself, against the conflicts     *)
(* that exist when reset_conflicts has just run on every archive.          *)

\* the last handler ended with reset_conflicts on every registered archive
ResetRan == last.op \in {"add", "rescan"} /\ ~last.aborted

\* a file record of the archive at the path matches a base-game file
MatchesGameFile(gf, ai, path) ==
    \E i \in 1..Len(ai.file_list) :
        /\ ai.file_list[i].path = path
        /\ \/ with_gamefiles(gf, NoCrc, path)
           \/ with_gamefiles(gf, ai.file_list[i].crc, NoPath)

\* C36: after reset_conflicts, an archive's own conflict map has a key p only
\* if p is a key of the global conflicts map under which another registered
\* archive declares p with a different hash, or p matches a base-game file;
\* so has_conflicts is false for an archive whose conflicting archive was
\* removed.
C36_OwnConflictsAreCurrent ==
    ResetRan =>
        \A a \in 1..Len(managed_archives) :
            \A path \in DOMAIN managed_archives[a].conflicts :
                \/ /\ path \in DOMAIN conflicts
                   /\ \E b \in 1..Len(managed_archives) :
                          Differ(managed_archives[a], managed_archives[b], path)
                \/ MatchesGameFile(gamefiles, managed_archives[a], path)

----------------------------------------------------------------------------
(* The watchdog handler of the archive repository: the events the observer *)
(* hands to it and the ignore and clear calls of the main window, in any   *)
(* order.  `batch` holds the fields of the handler, `last` the event       *)
(* handled, the signals it emitted and, for every path, the number of      *)
(* created events received and of modified signals emitted so far.         *)

EventTypes == {"moved", "created", "deleted", "modified"}

\* the event types the main window passes to fswatch_ignore and fswatch_clear
IgnoredTypes == {"created", "deleted"}

HandlerPaths == {"A.7z", "D.7z"}

\* the created events received for one path
MaxCreated == 2

FileSystemEvents ==
    [event_type : EventTypes, src_path : HandlerPaths, is_directory : BOOLEAN]

\* list.remove(x): the list without its first x
list_remove(seq, x) ==
    LET i == CHOOSE k \in 1..Len(seq) :
                 seq[k] = x /\ \A j \in 1..(k - 1) : seq[j] # x
    IN  SubSeq(seq, 1, i - 1) \o SubSeq(seq, i + 1, Len(seq))

\* ArchiveAddedEventHandler.__init__ after QmmWdEventHandler.__init__
ArchiveAddedEventHandler ==
    [_active |-> TRUE, _accept |-> <<>>, _ignored |-> [t \in EventTypes |-> <<>>]]

ignore(h, src_path, event_type) ==
    IF src_path \in Elements(h._ignored[event_type]) THEN h
    ELSE [h EXCEPT !._ignored[event_type] = Append(@, src_path)]

clear(h, src_path, event_type) ==
    IF src_path \notin Elements(h._ignored[event_type]) THEN h
    ELSE [h EXCEPT !._ignored[event_type] = list_remove(@, src_path)]

\* sgn_x.emit(event.key)
emit(signal, event) == <<[signal |-> signal, path |-> event.src_path]>>

on_moved(h, event) ==
    IF event.is_directory \/ ~h._active THEN [h |-> h, signals |-> <<>>]
    ELSE [h |-> h, signals |-> emit("moved", event)]

on_created(h, event) ==
    IF event.is_directory \/ ~h._active THEN [h |-> h, signals |-> <<>>]
    ELSE [h |-> [h EXCEPT !._accept = Append(@, event.src_path)],
          signals |-> emit("created", event)]

on_deleted(h, event) ==
    IF event.is_directory \/ ~h._active THEN [h |-> h, signals |-> <<>>]
    ELSE [h |-> h, signals |-> emit("deleted", event)]

\* on_modified as GameModEventHandler writes it: the signal is emitted
\* whether or not the path went through a created event
on_modified_without_accept(h, event) ==
    IF ~h._active THEN [h |-> h, signals |-> <<>>]
    ELSE [h |-> IF event.src_path \in Elements(h._accept)
                THEN [h EXCEPT !._accept = list_remove(@, event.src_path)]
                ELSE h,
          signals |-> emit("modified", event)]

on_modified(h, event) ==
    IF ~h._active THEN [h |-> h, signals |-> <<>>]
    ELSE IF event.src_path \in Elements(h._accept)
         THEN [h |-> [h EXCEPT !._accept = list_remove(@, event.src_path)],
               signals |-> emit("modified", event)]
         ELSE [h |-> h, signals |-> <<>>]

\* the number of signals of one kind emitted for a path
Emitted(signals, signal, path) ==
    Cardinality({i \in 1..Len(signals) :
                     signals[i] = [signal |-> signal, path |-> path]})

InitHandler ==
    /\ disk = EmptyDisk
    /\ dirs = {}
    /\ loosefiles = EmptyMap
    /\ conflicts = EmptyMap
    /\ managed_archives = <<>>
    /\ user_archives = {}
    /\ gamefiles = EmptyMap
    /\ window = InitWindow(FALSE)
    /\ batch = ArchiveAddedEventHandler
    /\ repository = {}
    /\ last = [op |-> "none", signals |-> <<>>,
               created |-> [p \in HandlerPaths |-> 0],
               modified |-> [p \in HandlerPaths |-> 0]]

\* the observer thread dispatches one event to the handler
Dispatched(event, r) ==
    /\ batch' = r.h
    /\ last' = [op |-> "on_" \o event.event_type, event |-> event,
                signals |-> r.signals,
                created |-> [last.created EXCEPT ![event.src_path] =
                                 @ + (IF event.event_type = "created" THEN 1 ELSE 0)],
                modified |-> [last.modified EXCEPT ![event.src_path] =
                                  @ + Emitted(r.signals, "modified", event.src_path)]]
    /\ UNCHANGED <<loosefiles, conflicts, disk, dirs, managed_archives, user_archives,
                   gamefiles, window, repository>>

OnMoved(event) ==
    /\ event.event_type = "moved"
    /\ Dispatched(event, on_moved(batch, event))

OnCreated(event) ==
    /\ event.event_type = "created"
    /\ last.created[event.src_path] < MaxCreated
    /\ Dispatched(event, on_created(batch, event))

OnDeleted(event) ==
    /\ event.event_type = "deleted"
    /\ Dispatched(event, on_deleted(batch, event))

OnModified(event) ==
    /\ event.event_type = "modified"
    /\ Dispatched(event, on_modified(batch, event))

\* MainWindow.fswatch_ignore.emit(path, event_type)
FswatchIgnore(src_path, event_type) ==
    /\ batch' = ignore(batch, src_path, event_type)
    /\ last' = [op |-> "ignore", src_path |-> src_path, event_type |-> event_type,
                signals |-> <<>>, created |-> last.created, modified |-> last.modified]
    /\ UNCHANGED <<loosefiles, conflicts, disk, dirs, managed_archives, user_archives,
                   gamefiles, window, repository>>

\* MainWindow.fswatch_clear.emit(path, event_type)
FswatchClear(src_path, event_type) ==
    /\ batch' = clear(batch, src_path, event_type)
    /\ last' = [op |-> "clear", src_path |-> src_path, event_type |-> event_type,
                signals |-> <<>>, created |-> last.created, modified |-> last.modified]
    /\ UNCHANGED <<loosefiles, conflicts, disk, dirs, managed_archives, user_archives,
                   gamefiles, window, repository>>

NextHandler ==
    \/ \E event \in FileSystemEvents : OnMoved(event)
    \/ \E event \in FileSystemEvents : OnCreated(event)
    \/ \E event \in FileSystemEvents : OnDeleted(event)
    \/ \E event \in FileSystemEvents : OnModified(event)
    \/ \E src_path \in HandlerPaths, event_type \in IgnoredTypes :
           FswatchIgnore(src_path, event_type)
    \/ \E src_path \in HandlerPaths, event_type \in IgnoredTypes :
           FswatchClear(src_path, event_type)

SpecHandler == InitHandler /\ [][NextHandler]_vars

\* the last step handed an event to the handler
EventHandled == last.op \in {"on_" \o t : t \in EventTypes}

\* C38: the handler emits a modified signal for a path only when a created
\* event for that path was received and not yet used up by an earlier
\* modified signal: for every path the modified signals emitted never
\* outnumber the created events received, a modified event emits nothing
\* else, and one for a path never created emits nothing.
C38_ModifiedOnlyAfterCreated ==
    /\ \A p \in HandlerPaths : last.modified[p] <= last.created[p]
    /\ last.op = "on_modified" =>
           /\ Len(last.signals) <= 1
           /\ \A i \in 1..Len(last.signals) :
                  last.signals[i] = [signal |-> "modified", path |-> last.event.src_path]
           /\ last.created[last.event.src_path] = 0 => last.signals = <<>>

\* a second modified signal for a path created twice
C38_Witness ==
    /\ last.op = "on_modified"
    /\ last.signals # <<>>
    /\ last.created[last.event.src_path] = 2
    /\ last.modified[last.event.src_path] = 2

\* C39: between ignore(path, event_type) and the matching clear, the handler
\* emits no signal for an event of that type on that path.
C39_IgnoredEventEmitsNothing ==
    [][(/\ last'.op \in {"on_" \o t : t \in EventTypes}
        /\ last'.event.src_path
               \in Elements(batch._ignored[last'.event.event_type]))
           => last'.signals = <<>>]_vars

----------------------------------------------------------------------------
(* The normalization of base-game paths: path_game2mod and the loop body   *)
(* of build_game_files_crc32, each applied once to a path of the game's    *)
(* res folder.  `last` holds the path, the segments it was built from and  *)
(* the result.                                                             *)

\* str.split(sep, maxsplit)
RECURSIVE str_split(_, _, _)
str_split(s, sep, maxsplit) ==
    LET hits == {k \in 1..Len(s) : Char(s, k) = sep}
    IN  IF maxsplit = 0 \/ hits = {} THEN <<s>>
        ELSE LET k == CHOOSE h \in hits : \A g \in hits : h <= g
             IN  <<SubSeq(s, 1, k - 1)>>
                     \o str_split(SubSeq(s, k + 1, Len(s)), sep, maxsplit - 1)

\* str(pathlib.PurePath(*parts)) for relative parts without "." segments:
\* the non-empty parts joined with the separator
RECURSIVE PurePath(_)
PurePath(segs) ==
    IF segs = <<>> THEN ""
    ELSE LET rest == PurePath(Tail(segs))
         IN  IF Head(segs) = "" THEN rest
             ELSE IF rest = "" THEN Head(segs)
             ELSE Head(segs) \o "/" \o rest

\* the tuple of liliththrone.py: "items" and "colours" are adjacent string
\* literals with no comma between them, which Python concatenates
_special_action ==
    {"clothing", "outfits", "tattoos", "weapons", "items" \o "colours",
     "combatMoves", "dialogue", "patterns", "race", "setBonuses", "sex",
     "statusEffects"}

\* sub_folders["items"], registered by as_validator from ItemsValidator
items_sub_folders == {"clothing", "weapons", "tattoos", "items", "patterns"}

\* the result is False when the path has fewer than three segments
path_game2mod(path) ==
    LET segs == str_split(path, "/", 2)
    IN  IF Len(segs) # 3 THEN [ok |-> FALSE, path |-> ""]
        ELSE LET category == segs[1]
                 namespace == segs[2]
                 extra == segs[3]
             IN  IF category \in _special_action
                 THEN IF category \in items_sub_folders
                      THEN [ok |-> TRUE,
                            path |-> PurePath(<<namespace, "items", category, extra>>)]
                      ELSE [ok |-> TRUE, path |-> PurePath(<<namespace, category, extra>>)]
                 ELSE [ok |-> TRUE, path |-> PurePath(<<path>>)]

scan_theses == {"clothing", "outfits", "tattoos", "weapons"}

\* the body of the loop of build_game_files_crc32 on one file; the unpacking
\* raises ValueError when the path has fewer than three segments
normalize_kfile(kfile) ==
    LET segs == str_split(kfile, "/", 2)
    IN  IF Len(segs) # 3 THEN [raised |-> TRUE, path |-> ""]
        ELSE IF segs[1] \in {"clothing", "weapons", "tattoos"}
             THEN [raised |-> FALSE,
                   path |-> PurePath(<<segs[2], "items", segs[1], segs[3]>>)]
             ELSE [raised |-> FALSE, path |-> PurePath(<<segs[2], segs[1], segs[3]>>)]

\* the categories said to need normalization
NormalizedCategories ==
    {"clothing", "outfits", "tattoos", "weapons", "items", "colours", "combatMoves",
     "dialogue", "patterns", "race", "setBonuses", "sex", "statusEffects"}

GameCategories == NormalizedCategories \cup {"encounters", "maps", "txt"}

GameNamespaces == {"innoxia", "dsg"}

GameExtras == {"a.xml", "b/a.svg"}

\* game paths of one to three and more segments
GamePaths ==
    {[segments |-> <<c>>, path |-> c] : c \in GameCategories} \cup
    {[segments |-> <<c, n>>, path |-> c \o "/" \o n] :
         c \in GameCategories, n \in GameNamespaces \cup {"a.xml"}} \cup
    {[segments |-> <<c, n, e>>, path |-> c \o "/" \o n \o "/" \o e] :
         c \in GameCategories, n \in GameNamespaces, e \in GameExtras}

InitNormalize ==
    /\ disk = EmptyDisk
    /\ dirs = {}
    /\ loosefiles = EmptyMap
    /\ conflicts = EmptyMap
    /\ managed_archives = <<>>
    /\ user_archives = {}
    /\ gamefiles = EmptyMap
    /\ window = InitWindow(FALSE)
    /\ batch = NoBatch
    /\ repository = {}
    /\ last \in {[op |-> "none", segments |-> g.segments, path |-> g.path] :
                     g \in GamePaths}

PathGame2Mod ==
    /\ last.op = "none"
    /\ last' = [op |-> "path_game2mod", segments |-> last.segments, path |-> last.path,
                result |-> path_game2mod(last.path)]
    /\ UNCHANGED <<loosefiles, conflicts, disk, dirs, managed_archives, user_archives,
                   gamefiles, window, batch, repository>>

\* build_game_files_crc32 walks the folders of scan_theses only
NormalizeGameFile ==
    /\ last.op = "none"
    /\ Len(last.segments) >= 2
    /\ last.segments[1] \in scan_theses
    /\ \E r \in {normalize_kfile(last.path)} :
           last' = [op |-> "build_game_files_crc32", segments |-> last.segments,
                    path |-> last.path,
                    result |-> [ok |-> ~r.raised, path |-> r.path]]
    /\ UNCHANGED <<loosefiles, conflicts, disk, dirs, managed_archives, user_archives,
                   gamefiles, window, batch, repository>>

NextNormalize == PathGame2Mod \/ NormalizeGameFile

SpecNormalize == InitNormalize /\ [][NextNormalize]_vars

\* namespace/category/extra, or namespace/items/category/extra for a
\* sub-directory of items
NormalizedPath(category, namespace, extra) ==
    IF category \in {"clothing", "weapons", "tattoos", "items", "patterns"}
    THEN namespace \o "/items/" \o category \o "/" \o extra
    ELSE namespace \o "/" \o category \o "/" \o extra

\* C40: a game path category/namespace/extra whose category needs
\* normalization is mapped to namespace/category/extra, and to
\* namespace/items/category/extra when the category is a sub-directory of
\* items, for each of the categories including items and colours; a path
\* with fewer than three segments yields the failure value.
C40_GamePathNormalized ==
    last.op \in {"path_game2mod", "build_game_files_crc32"} =>
        IF Len(last.segments) < 3 THEN ~last.result.ok
        ELSE last.segments[1] \in NormalizedCategories =>
                 /\ last.result.ok
                 /\ last.result.path =
                        NormalizedPath(last.segments[1], last.segments[2], last.segments[3])

====
